---- MODULE Spec2Model ----
(***************************************************************************)
(* Model of 1password_document_reattacher.py: the reference-mode run       *)
(* (main), the orphan clean-up run (cleanup_documents) and the __main__    *)
(* block that chains them, over a small record store.                      *)
(*                                                                         *)
(* Python strings are modelled as sequences of one-character strings, so   *)
(* that split / strip / replace / lower are computed as Python computes    *)
(* them.  "P - J" is <<"P"," ","-"," ","J">>.                              *)
(***************************************************************************)
EXTENDS Integers, Sequences, FiniteSets, TLC

(***************************************************************************)
(* String helpers (str methods used by the program).                       *)
(***************************************************************************)

\* s[i:i+len(sub)] == sub
StartsAt(s, sub, i) ==
    /\ i + Len(sub) - 1 <= Len(s)
    /\ SubSeq(s, i, i + Len(sub) - 1) = sub

\* sub in s
Contains(s, sub) == \E i \in 1..(Len(s) + 1) : StartsAt(s, sub, i)

\* x in list
InList(x, list) == \E i \in 1..Len(list) : list[i] = x

RECURSIVE SplitFrom(_, _, _, _)
SplitFrom(s, sep, i, cur) ==
    IF i > Len(s) THEN <<cur>>
    ELSE IF StartsAt(s, sep, i)
         THEN <<cur>> \o SplitFrom(s, sep, i + Len(sep), <<>>)
         ELSE SplitFrom(s, sep, i + 1, Append(cur, s[i]))

\* s.split(sep), sep non-empty
split(s, sep) == SplitFrom(s, sep, 1, <<>>)

RECURSIVE ReplaceFrom(_, _, _, _)
ReplaceFrom(s, old, new, i) ==
    IF i > Len(s) THEN <<>>
    ELSE IF StartsAt(s, old, i)
         THEN new \o ReplaceFrom(s, old, new, i + Len(old))
         ELSE <<s[i]>> \o ReplaceFrom(s, old, new, i + 1)

\* s.replace(old, new), old non-empty
replace(s, old, new) == ReplaceFrom(s, old, new, 1)

RECURSIVE lstrip(_, _)
lstrip(s, chars) ==
    IF s # <<>> /\ Head(s) \in chars THEN lstrip(Tail(s), chars) ELSE s

RECURSIVE rstrip(_, _)
rstrip(s, chars) ==
    IF s # <<>> /\ s[Len(s)] \in chars
    THEN rstrip(SubSeq(s, 1, Len(s) - 1), chars)
    ELSE s

\* s.strip()
strip(s) == lstrip(rstrip(s, {" "}), {" "})

LowerChar(c) ==
    CASE c = "P" -> "p"
      [] c = "J" -> "j"
      [] c = "I" -> "i"
      [] c = "K" -> "k"
      [] c = "C" -> "c"
      [] c = "O" -> "o"
      [] c = "N" -> "n"
      [] c = "Y" -> "y"
      [] OTHER   -> c

\* a lower() that leaves every character as it is
lowerKept(s) == s

\* s.lower()
lower(s) == [i \in 1..Len(s) |-> LowerChar(s[i])]

\* [x for x in s if keep(x)] for a set of dropped characters
RECURSIVE DropChars(_, _)
DropChars(s, chars) ==
    IF s = <<>> THEN <<>>
    ELSE IF Head(s) \in chars THEN DropChars(Tail(s), chars)
         ELSE <<Head(s)>> \o DropChars(Tail(s), chars)

\* s[-1]
Last(s) == s[Len(s)]

(***************************************************************************)
(* sanitize(filename), lines 26-71.  The branch for names longer than 255  *)
(* characters is kept with its constant; the titles of the model are       *)
(* shorter.                                                                *)
(***************************************************************************)
SanitizeBlacklist == {"\\", "/", ":", "*", "?", "\"", "<", ">", "|"}

SanitizeReserved == { <<"C","O","N">>, <<"P","R","N">>, <<"A","U","X">>,
                      <<"N","U","L">> }

MaxFileNameLen == 255

\* lines 47-48
AllDots(f) == IF \A i \in 1..Len(f) : f[i] = "." THEN <<"_", "_">> \o f ELSE f

\* lines 49-50
Reserved(f) == IF f \in SanitizeReserved THEN <<"_", "_">> \o f ELSE f

\* lines 51-52
NonEmpty(f) == IF Len(f) = 0 THEN <<"_", "_">> ELSE f

\* lines 53-70, for a name without extension
Truncated(f) ==
    IF Len(f) > MaxFileNameLen
    THEN NonEmpty(rstrip(SubSeq(f, 1, MaxFileNameLen), {".", " "}))
    ELSE f

sanitize(filename) ==
    Truncated(NonEmpty(Reserved(AllDots(
        strip(rstrip(DropChars(filename, SanitizeBlacklist), {".", " "}))))))

(***************************************************************************)
(* allowed_by_white_black_lists, lines 118-136.  Returns the pair          *)
(* <<white_list_allowed, black_list_allowed>>.                             *)
(***************************************************************************)
allowed_by_white_black_lists(s, whitelist, blacklist, exact_match) ==
    IF exact_match
    THEN << Len(whitelist) = 0 \/ \E i \in 1..Len(whitelist) : whitelist[i] = s,
            Len(blacklist) = 0 \/ \A i \in 1..Len(blacklist) : blacklist[i] # s >>
    ELSE << Len(whitelist) = 0
              \/ \E i \in 1..Len(whitelist) : Contains(lower(s), lower(whitelist[i])),
            Len(blacklist) = 0
              \/ \A i \in 1..Len(blacklist) : ~Contains(lower(s), lower(blacklist[i])) >>

\* "False in wbla"
Denied(wbla) == ~wbla[1] \/ ~wbla[2]

(***************************************************************************)
(* Ordered dictionaries (defaultdict(list)): a sequence of [k, v] pairs in *)
(* key insertion order, v the list appended to.                            *)
(***************************************************************************)
HasKey(d, k) == \E i \in 1..Len(d) : d[i].k = k

\* d[k].append(x)
DictAppend(d, k, x) ==
    IF HasKey(d, k)
    THEN [i \in 1..Len(d) |-> IF d[i].k = k THEN [k |-> k, v |-> Append(d[i].v, x)]
                                            ELSE d[i]]
    ELSE Append(d, [k |-> k, v |-> <<x>>])

RECURSIVE DictValues(_)
\* [x for v in d.values() for x in v]
DictValues(d) == IF d = <<>> THEN <<>> ELSE Head(d).v \o DictValues(Tail(d))

\* sum(len(v) for v in d.values())
DictTotal(d) == Len(DictValues(d))

RECURSIVE DictMerge(_, _)
\* d |= e : a key of e replaces the value of the same key of d, new keys go last
DictMerge(d, e) ==
    IF e = <<>> THEN d
    ELSE LET h == Head(e)
             d1 == IF HasKey(d, h.k)
                   THEN [i \in 1..Len(d) |-> IF d[i].k = h.k THEN h ELSE d[i]]
                   ELSE Append(d, h)
         IN  DictMerge(d1, Tail(e))

(***************************************************************************)
(* The record store.  A record is what `op item get` returns for it:       *)
(* title, category, state, vault, tags, fields, files.  state "DELETED"    *)
(* is a permanently deleted record: every call naming it fails.  An empty  *)
(* tags list stands for a record without a "tags" key; has_files tells     *)
(* whether the record has a "files" key at all.                            *)
(***************************************************************************)
Sep == <<" ", "-", " ">>
T_J == <<"J">>
T_PJ == <<"P">> \o Sep \o T_J
T_KJ == <<"K">> \o Sep \o T_J
T_Ip == <<"I", ".", "p">>
T_KJp == T_KJ \o <<".", "p">>
T_KJx == T_KJ \o <<".", "p", "p", "p", "p", "p">>

\* --reattach-tag as given on the command line
RT == <<"r", "t">>
FuzzySuffix == <<" ", "f", "u", "z", "z", "y">>
DeletedSuffix == <<" ", "d", "e", "l", "e", "t", "e", "d">>

ItemIds == {"I1", "I2"}
DocIds == {"D1", "D2"}
Ids == ItemIds \cup DocIds

File(id, name, size) == [id |-> id, name |-> name, size |-> size]
Ref(id, value) ==
    [id |-> id, type |-> "REFERENCE", section |-> "sec", value |-> value]

Rec(title, category, state, vault, tags, fields, files, has_files) ==
    [title |-> title, category |-> category, state |-> state, vault |-> vault,
     tags |-> tags, fields |-> fields, files |-> files, has_files |-> has_files]

I1Files(k) ==
    CASE k = "none"  -> <<>>
      [] k = "size"  -> <<File("fs", <<"Z">>, 1)>>
      [] k = "name"  -> <<File("fn", <<"P">>, 9)>>
      [] k = "other" -> <<File("fo", <<"Z">>, 9)>>

RefFields(targets) ==
    [i \in 1..Len(targets) |->
        Ref(IF i = 1 THEN "r1" ELSE "r2", targets[i])]

D1Files(k) ==
    CASE k = "one"   -> <<File("fa", <<"P">>, 1)>>
      [] k = "two"   -> <<File("fa", <<"P">>, 1), File("fb", <<"Q">>, 2)>>
      [] k = "blank" -> <<File("", <<"P">>, 1)>>
      [] OTHER       -> <<>>

\* One store: the knobs of item I1 ("J", active), item I2 ("J"), document D1
\* ("P - J") and document D2.
MkStore(i1files, i1refs, i1tags, i2state, i2refs, i2files, d1files, d1tags, d2title, d2vault) ==
    [id \in Ids |->
        CASE id = "I1" -> Rec(T_J, "LOGIN", "ACTIVE", "v1", i1tags,
                              RefFields(i1refs), I1Files(i1files),
                              i1files # "none")
          [] id = "I2" -> Rec(T_J, "LOGIN", i2state, "v1", <<>>,
                              RefFields(i2refs), I1Files(i2files),
                              i2files # "none")
          [] id = "D1" -> Rec(T_PJ, "DOCUMENT", "ACTIVE", "v1", d1tags, <<>>,
                              D1Files(d1files), d1files # "nokey")
          [] id = "D2" -> Rec(d2title, "DOCUMENT", "ACTIVE", d2vault, <<>>, <<>>,
                              <<File("fc", <<"K">>, 2)>>, TRUE)]

(***************************************************************************)
(* State.                                                                  *)
(***************************************************************************)
VARIABLES
    opts,                \* the command-line options of the process
    store,               \* the record store: id -> record
    order,               \* the order in which the store lists its records
    pc,                  \* position of the process
    todo,                \* ids the running checking loop has still to visit
    cur,                 \* reference mode: the item whose references are walked
    qi,                  \* index of the next decision of the running executor loop
    acc,                 \* reattached_docs, skipped_docs, removed_docs,
                         \* removal_pending_docs, failed_docs of the running mode
    removed_doc_ids,     \* cleanup_documents: removed_doc_ids
    all_itms_w_archive,  \* cleanup_documents: all_itms_w_archive (ids, listed order)
    heap,                \* the "tags" list objects shared by the entries of a mode
    ref_name,            \* main: local ref_name ("UNBOUND" before its first binding)
    doc_vid,             \* cleanup_documents: local doc_vid ("UNBOUND" likewise)
    calls,               \* every store call issued, in order
    reports,             \* the report files written, each a sequence of rows
    asked,               \* the operator's answers, in order
    snap,                \* the store and the number of calls issued when the
                         \* running mode started
    nfail,               \* store calls that failed so far
    crash,               \* the uncaught exception that ended the process, or ""
    first,               \* what an earlier dry-run process on the same store
                         \* did, when this process repeats it for real
    rcall                \* the running invocation of the wrapper R: its
                         \* command, the answers the store has ready for its
                         \* attempts, and the locals of R

vars == <<opts, store, order, pc, todo, cur, qi, acc, removed_doc_ids,
          all_itms_w_archive, heap, ref_name, doc_vid, calls, reports, asked,
          snap, nfail, crash, first, rcall>>

\* Most store calls that may fail in one process.
MaxFailures == 1

UNBOUND == "UNBOUND"

EmptyAcc ==
    [reattached_docs |-> <<>>, skipped_docs |-> <<>>, removed_docs |-> <<>>,
     removal_pending_docs |-> <<>>, failed_docs |-> <<>>]

NoCur == [id |-> ""]

NoRun == [ran |-> FALSE, asked |-> <<>>, steps |-> <<>>, decided |-> <<>>, flip |-> 0]

\* lines 161 and 491: reattached_tag.replace('"', '').replace("'", "").strip()
reattached_tag == strip(DropChars(opts.reattached_tag, {"\"", "'"}))

\* lines 156-158 and 486-488: supervising implies verbose, share links and
\* confirmation
verbose == opts.verbose \/ opts.supervise_run
generate_share_links == opts.generate_share_links \/ opts.supervise_run
\* a run that never asks for confirmation
confirm_unasked == FALSE

confirm_before_modifying == opts.confirm_before_modifying \/ opts.supervise_run

\* What a prompt is about: the reference field of an item and the record it
\* names for the prompt of line 630, nothing for the batch prompts.
NoSubject == [item |-> "", field |-> "", doc |-> ""]

Subject(c, ref) == [item |-> c.id, field |-> ref.id, doc |-> ref.value]

\* What the operator may type at a prompt.
Answers == {<<"y">>, <<"N", " ">>}

\* rsp.lower().strip()
Answer(rsp) == strip(lower(rsp))

\* a gate that takes only the bare letter for a refusal
CancelledExact(rsp) == rsp = <<"n">>

\* lines 331 and 683: rsp.lower().strip() == "n"
Cancelled(rsp) == Answer(rsp) = <<"n">>

\* a supervised gate that never takes a refusal
UserSkipsNever(rsp) == FALSE

\* line 632: rsp.lower().strip() == "n"
UserSkips(rsp) == Answer(rsp) = <<"n">>

\* input(): what the operator types at the next prompt.  A process that
\* repeats an earlier one is given the answers of the earlier one, in order,
\* as long as they last; the answer numbered first.flip is turned into a
\* refusal.
Replies ==
    IF first.ran /\ Len(asked) < Len(first.asked)
    THEN {IF Len(asked) + 1 = first.flip THEN <<"n">>
          ELSE first.asked[Len(asked) + 1].rsp}
    ELSE Answers

(***************************************************************************)
(* Store calls.  A call fails when the store is told to fail it, when the  *)
(* record is gone, or when --vault names another vault than the record's.  *)
(***************************************************************************)
Exists(st, id) == id \in Ids /\ st[id].state # "DELETED"

\* line 84
max_num_attempts == 1

\* no invocation of R is running
NoCall == [cmd |-> <<>>, answers |-> <<>>, num_attempts |-> 0, pc |-> "idle",
           value |-> ""]

\* a loop that does not count the failed attempt
RLoopUncounted(w) ==
    IF ~(w.num_attempts < max_num_attempts)
    THEN [w EXCEPT !.pc = "returned", !.value = "None"]
    ELSE LET a == w.answers[w.num_attempts + 1]
         IN  IF a.ok THEN [w EXCEPT !.pc = "returned", !.value = a.out]
             ELSE w

\* lines 85-92: one turn of the while loop of R.  The attempt is answered by
\* the store's next answer; a successful one is returned, a failed one is
\* counted and its error raised when it was the last one allowed.  When the
\* loop condition fails the function runs off its end and returns None.
RLoop(w) ==
    IF ~(w.num_attempts < max_num_attempts)
    THEN [w EXCEPT !.pc = "returned", !.value = "None"]
    ELSE LET a == w.answers[w.num_attempts + 1]
         IN  IF a.ok THEN [w EXCEPT !.pc = "returned", !.value = a.out]
             ELSE IF w.num_attempts + 1 = max_num_attempts
             THEN [w EXCEPT !.num_attempts = @ + 1, !.pc = "raised", !.value = a.out]
             ELSE [w EXCEPT !.num_attempts = @ + 1]

InVault(st, id, vid) == Exists(st, id) /\ st[id].vault = vid

Call(op, id, vault, dry, archive, ok, dec) ==
    [op |-> op, id |-> id, vault |-> vault, dry |-> dry, archive |-> archive,
     ok |-> ok, dec |-> dec, tags |-> <<>>]

\* item edit ... --tags <tags>: the call with the tag list it sends
TagCall(id, vault, dry, ok, dec, tags) ==
    [Call("tag", id, vault, dry, FALSE, ok, dec) EXCEPT !.tags = tags]

\* J("item get " + id), issued while checking record dec
GetCall(st, id, fail, dec) ==
    Call("get", id, "", FALSE, FALSE, Exists(st, id) /\ ~fail, dec)

\* op item list [--include-archive] [--tags ...]: ids in listed order
ListItems(st, ord, include_archive, tags) ==
    SelectSeq(ord, LAMBDA id :
        /\ Exists(st, id)
        /\ (include_archive \/ st[id].state # "ARCHIVED")
        /\ (Len(tags) = 0 \/ \E i \in 1..Len(st[id].tags) : InList(st[id].tags[i], tags)))

\* item edit ... --tags: the record with its tags replaced
WithTags(st, id, tags) == [st EXCEPT ![id].tags = tags]

\* item edit ... '<name>[file]=<path>': the record with one more file
WithFile(st, id, name, size) ==
    [st EXCEPT ![id].files = Append(@, File("new", name, size)),
               ![id].has_files = TRUE]

\* item edit ... '<section>.<field>[delete]'
WithoutField(st, id, field_id) ==
    [st EXCEPT ![id].fields = SelectSeq(@, LAMBDA f : f.id # field_id)]

\* item delete [--archive]
Deleted(st, id, archive) ==
    [st EXCEPT ![id].state = IF archive THEN "ARCHIVED" ELSE "DELETED"]

(***************************************************************************)
(* The precheck of both modes (lines 180-191 and 553-564): the reason a    *)
(* subject is skipped for, or "" when it is admitted.                      *)
(***************************************************************************)
RECURSIVE TagReason(_, _, _)
TagReason(tags, tag_whitelist, tag_blacklist) ==
    IF tags = <<>> THEN ""
    ELSE LET wbla == allowed_by_white_black_lists(Head(tags), tag_whitelist,
                                                  tag_blacklist, TRUE)
         IN  IF Denied(wbla)
             THEN (IF ~wbla[2] THEN "item tag blacklisted"
                               ELSE "item tag not on whitelist")
             ELSE TagReason(Tail(tags), tag_whitelist, tag_blacklist)

PrecheckReason(title, tags, item_whitelist, item_blacklist, tag_whitelist, tag_blacklist) ==
    LET wbla == allowed_by_white_black_lists(title, item_whitelist,
                                             item_blacklist, FALSE)
    IN  IF Denied(wbla)
        THEN (IF ~wbla[2] THEN "item blacklisted" ELSE "item not on whitelist")
        ELSE TagReason(tags, tag_whitelist, tag_blacklist)

(***************************************************************************)
(* cleanup_documents, step 1 (lines 199-301): the decision for one         *)
(* document.  F is the set of ids whose `item get` the store fails.        *)
(***************************************************************************)
\* doc_j, or doc_j | {"referenced by": candidate_itm}
DocEntry(st, doc_i, by) ==
    [doc |-> doc_i, title |-> st[doc_i].title, vault |-> st[doc_i].vault,
     by |-> by, by_title |-> IF by = "" THEN <<>> ELSE st[by].title]

\* an entry of failed_docs; doc is the document the entry is about
FailedEntry(item, document, doc) ==
    [item |-> item, document |-> document, error |-> "e", doc |-> doc]

\* every file of the record, whatever its id
doc_files_all(rec) == rec.files

\* line 210: [i for i in doc_j.get("files", []) if i["id"] != ""]
doc_files(rec) == SelectSeq(rec.files, LAMBDA f : f.id # "")

ExtLimit == 5

\* a name test that looks for the separator alone
NotUpgradeNamedNoExt(doc_name) == Len(split(doc_name, Sep)) < 2

\* line 231
NotUpgradeNamed(doc_name) ==
    LET doc_name_split == split(doc_name, Sep)
        last == Last(doc_name_split)
        ext == Last(split(last, <<".">>))
    IN  \/ Len(doc_name_split) < 2
        \/ (Contains(last, <<".">>) /\ Len(ext) > 0 /\ Len(ext) < ExtLimit)

\* lines 236-237
matching_itms(st, itms, doc_name) ==
    LET itm_check_name == strip(Last(split(doc_name, Sep)))
    IN  SelectSeq(itms, LAMBDA i : strip(st[i].title) = itm_check_name)

\* line 248
RefersTo(rec, doc_i) ==
    \E k \in 1..Len(rec.fields) :
        rec.fields[k].type = "REFERENCE" /\ rec.fields[k].value = doc_i

\* an archived pass that looks at the first candidate alone
ArchivedPassHead(st, cands, doc_i, F) ==
    IF cands # <<>> /\ st[Head(cands)].state = "ARCHIVED"
       /\ GetCall(st, Head(cands), Head(cands) \in F, doc_i).ok
       /\ RefersTo(st[Head(cands)], doc_i)
    THEN [hit |-> Head(cands), failed |-> <<>>,
          gets |-> <<GetCall(st, Head(cands), FALSE, doc_i)>>]
    ELSE [hit |-> "", failed |-> <<>>, gets |-> <<>>]

\* lines 239-254: hit is the archived item found to reference the document
RECURSIVE ArchivedPass(_, _, _, _)
ArchivedPass(st, cands, doc_i, F) ==
    IF cands = <<>> THEN [hit |-> "", failed |-> <<>>, gets |-> <<>>]
    ELSE LET c == Head(cands)
             rest == ArchivedPass(st, Tail(cands), doc_i, F)
             get == GetCall(st, c, c \in F, doc_i)
         IN  IF st[c].state # "ARCHIVED" THEN rest
             ELSE IF ~get.ok
             THEN [rest EXCEPT !.failed = <<c>> \o @, !.gets = <<get>> \o @]
             ELSE IF RefersTo(st[c], doc_i)
             THEN [hit |-> c, failed |-> <<>>, gets |-> <<get>>]
             ELSE [rest EXCEPT !.gets = <<get>> \o @]

\* an active pass in which the first active candidate is the target, with
\* or without files
ActivePassNoSkip(st, cands, doc_i, F) ==
    LET active == SelectSeq(cands, LAMBDA c : st[c].state # "ARCHIVED")
    IN  IF active = <<>>
        THEN [outcome |-> "none", itm |-> "", failed |-> <<>>, gets |-> <<>>]
        ELSE [outcome |-> "reattach", itm |-> Head(active), failed |-> <<>>,
              gets |-> <<GetCall(st, Head(active), FALSE, doc_i)>>]

\* lines 261-288: what the first active candidate with files decides
RECURSIVE ActivePass(_, _, _, _)
ActivePass(st, cands, doc_i, F) ==
    IF cands = <<>>
    THEN [outcome |-> "none", itm |-> "", failed |-> <<>>, gets |-> <<>>]
    ELSE LET c == Head(cands)
             rest == ActivePass(st, Tail(cands), doc_i, F)
             get == GetCall(st, c, c \in F, doc_i)
             itm_files == st[c].files
             doc_size == doc_files(st[doc_i])[1].size
             doc_name == st[doc_i].title
             stop(o) == [outcome |-> o, itm |-> c, failed |-> <<>>, gets |-> <<get>>]
         IN  IF st[c].state = "ARCHIVED" THEN rest
             ELSE IF ~get.ok
             THEN [rest EXCEPT !.failed = <<c>> \o @, !.gets = <<get>> \o @]
             ELSE IF Len(itm_files) = 0
             THEN [rest EXCEPT !.gets = <<get>> \o @]
             ELSE IF \E k \in 1..Len(itm_files) : itm_files[k].size = doc_size
             THEN stop("size")
             ELSE IF \E k \in 1..Len(itm_files) :
                        itm_files[k].name = replace(doc_name, Sep \o st[c].title, <<>>)
             THEN stop("name")
             ELSE stop("reattach")

\* failed_docs["failed to get item"].append(...) for each candidate in `failed`
RECURSIVE AddFailedItems(_, _, _, _)
AddFailedItems(d, st, failed, doc_i) ==
    IF failed = <<>> THEN d
    ELSE AddFailedItems(
            DictAppend(d, "failed to get item",
                       FailedEntry(st[Head(failed)].title, st[doc_i].title, doc_i)),
            st, Tail(failed), doc_i)

\* lines 290-301: after the candidate loops, a document not in removed_doc_ids
NoMatch(a, doc_j, confirm) ==
    IF confirm
    THEN [a EXCEPT !.removal_pending_docs = DictAppend(@, "no matching items", doc_j)]
    ELSE [a EXCEPT !.skipped_docs = DictAppend(@, "no matching items", doc_j)]

\* The whole loop body: [acc, gets, removed] after one document.
ClassifyDoc(a, st, itms, doc_i, F, confirm) ==
    LET get == GetCall(st, doc_i, doc_i \in F, doc_i)
        doc_j == DocEntry(st, doc_i, "")
        doc_name == st[doc_i].title
        cands == matching_itms(st, itms, doc_name)
        ap == ArchivedPass(st, cands, doc_i, F)
        a1 == [a EXCEPT !.failed_docs = AddFailedItems(@, st, ap.failed, doc_i)]
        vp == ActivePass(st, cands, doc_i, F)
        a2 == [a1 EXCEPT !.failed_docs = AddFailedItems(@, st, vp.failed, doc_i)]
        removal(b, reason, by) ==
            [b EXCEPT !.removed_docs = DictAppend(@, reason, DocEntry(st, doc_i, by))]
    IN  IF ~get.ok
        THEN [acc |-> [a EXCEPT !.failed_docs =
                          DictAppend(@, "failed to get doc",
                                     FailedEntry(doc_name, doc_name, doc_i))],
              gets |-> <<get>>, removed |-> FALSE]
        ELSE IF Len(doc_files(st[doc_i])) = 0
        THEN [acc |-> removal(a, "no files", ""), gets |-> <<get>>, removed |-> TRUE]
        ELSE IF NotUpgradeNamed(doc_name)
        THEN [acc |-> [a EXCEPT !.skipped_docs =
                          DictAppend(@, "not named like document from 1P v7 upgrade",
                                     doc_j)],
              gets |-> <<get>>, removed |-> FALSE]
        ELSE IF ap.hit # ""
        THEN [acc |-> removal(a1, "referenced by archived item", ap.hit),
              gets |-> <<get>> \o ap.gets, removed |-> TRUE]
        ELSE IF vp.outcome = "size"
        THEN [acc |-> removal(a2, "already attached to item (size match)", vp.itm),
              gets |-> <<get>> \o ap.gets \o vp.gets, removed |-> TRUE]
        ELSE IF vp.outcome = "name"
        THEN [acc |-> removal(a2, "already attached to item (name match)", vp.itm),
              gets |-> <<get>> \o ap.gets \o vp.gets, removed |-> TRUE]
        ELSE IF vp.outcome = "reattach"
        THEN [acc |-> NoMatch([a2 EXCEPT !.reattached_docs =
                                  DictAppend(@, doc_i, DocEntry(st, doc_i, vp.itm))],
                              doc_j, confirm),
              gets |-> <<get>> \o ap.gets \o vp.gets, removed |-> FALSE]
        ELSE [acc |-> NoMatch(a2, doc_j, confirm),
              gets |-> <<get>> \o ap.gets \o vp.gets, removed |-> FALSE]

(***************************************************************************)
(* Executor steps shared by the loops.  An executor state x is             *)
(* [st, hp, calls, failed, dv, crash, nf, raised]: store, tag lists, calls *)
(* issued, failed_docs, the local doc_vid, the uncaught exception,         *)
(* failures used, and whether the running try block has raised.            *)
(***************************************************************************)
Issue(x, call, forced) ==
    [x EXCEPT !.calls = Append(@, call),
              !.nf = IF forced THEN @ + 1 ELSE @]

\* tags.append(tag): the list object of record id grows when the record has
\* a "tags" key; a list made by .get("tags", []) is dropped after use
Appended(hp, id, tag) ==
    IF hp[id] # <<>> THEN [hp EXCEPT ![id] = Append(@, tag)] ELSE hp

\* the except clause of a try block
Fail(x, reason, entry) ==
    [x EXCEPT !.failed = DictAppend(@, reason, entry), !.raised = TRUE]

\* entering a try block
Try(x) == [x EXCEPT !.raised = FALSE]

dry_run == opts.dry_run
\* a run that never archives
archive_never == FALSE

archive_docs == opts.archive_docs

(***************************************************************************)
(* cleanup_documents, step 2 (lines 350-399): one fuzzy reattachment.      *)
(* f says which of the calls the store fails: dl, at, it, dt, de.          *)
(***************************************************************************)
\* sanitize(doc_name.replace(f" - {itm_name}", "")), line 356
CleanupDocName(e) == sanitize(replace(e.title, Sep \o e.by_title, <<>>))

\* lines 359-369
CleanupAttach(x, e, f) ==
    LET itm_i == e.by
        itm_vid == x.st[itm_i].vault
        doc_name == CleanupDocName(e)
        ok1 == InVault(x.st, e.doc, itm_vid) /\ ~f.dl
        x1 == Issue(x, Call("download", e.doc, itm_vid, FALSE, FALSE, ok1, e.doc), f.dl)
        ok2 == InVault(x.st, itm_i, itm_vid) /\ ~f.at
        x2 == Issue(x1, Call("attach", itm_i, itm_vid, dry_run, FALSE, ok2, e.doc), f.at)
        x3 == IF ok2 /\ ~dry_run
              THEN [x2 EXCEPT !.st = WithFile(@, itm_i, doc_name,
                                              x.st[e.doc].files[1].size)]
              ELSE x2
        failed == FailedEntry(e.by_title, doc_name, e.doc)
    IN  IF ~ok1 THEN Fail(x1, "failed to reattach document", failed)
        ELSE IF ~ok2 THEN Fail(x2, "failed to reattach document", failed)
        ELSE x3

\* lines 370-380
CleanupTagItem(x, e, f) ==
    LET itm_i == e.by
        itm_vid == x.st[itm_i].vault
        tag == reattached_tag \o FuzzySuffix
        itm_tags == Append(x.hp[itm_i], tag)
        ok == InVault(x.st, itm_i, itm_vid) /\ ~f.it
        x1 == [Issue(x, TagCall(itm_i, itm_vid, dry_run, ok, e.doc, itm_tags), f.it)
                 EXCEPT !.hp = Appended(@, itm_i, tag)]
        x2 == IF ok /\ ~dry_run THEN [x1 EXCEPT !.st = WithTags(@, itm_i, itm_tags)]
              ELSE x1
    IN  IF reattached_tag = <<>> \/ InList(tag, x.hp[itm_i]) THEN x
        ELSE IF ~ok
        THEN Fail(x1, "failed to add reattached tag to item",
                  FailedEntry(e.by_title, CleanupDocName(e), e.doc))
        ELSE x2

\* lines 381-392 (reattach loop) and 410-418 (remove loop): tag the document.
\* item is the "item" column of a failure entry.
TagDocument(x, e, item, document, f) ==
    LET tag == reattached_tag \o DeletedSuffix
        doc_tags == Append(x.hp[e.doc], tag)
        ok == InVault(x.st, e.doc, e.vault) /\ ~f.dt
        x1 == [Issue(x, TagCall(e.doc, e.vault, dry_run, ok, e.doc, doc_tags), f.dt)
                 EXCEPT !.hp = Appended(@, e.doc, tag), !.dv = e.vault]
        x2 == IF ok /\ ~dry_run THEN [x1 EXCEPT !.st = WithTags(@, e.doc, doc_tags)]
              ELSE x1
    IN  IF InList(tag, x.hp[e.doc]) THEN x
        ELSE IF ~ok
        THEN Fail(x1, "failed to tag document before removal",
                  FailedEntry(item, document, e.doc))
        ELSE x2

\* a delete step that runs in a dry run as well
DeleteDocumentAlways(x, e, item, document, f) ==
    LET ok == InVault(x.st, e.doc, x.dv) /\ ~f.de
        x1 == Issue(x, Call("delete", e.doc, x.dv, FALSE, archive_docs, ok, e.doc), f.de)
    IN  IF x.dv = UNBOUND THEN [x EXCEPT !.crash = "UnboundLocalError: doc_vid"]
        ELSE IF ~ok
        THEN Fail(x1, "failed to delete document", FailedEntry(item, document, e.doc))
        ELSE [x1 EXCEPT !.st = Deleted(@, e.doc, archive_docs)]

\* lines 393-399 and 420-425: delete (or archive) the document with the vault
\* id the local doc_vid holds
DeleteDocument(x, e, item, document, f) ==
    LET ok == InVault(x.st, e.doc, x.dv) /\ ~f.de
        x1 == Issue(x, Call("delete", e.doc, x.dv, FALSE, archive_docs, ok, e.doc), f.de)
    IN  IF dry_run THEN x
        ELSE IF x.dv = UNBOUND THEN [x EXCEPT !.crash = "UnboundLocalError: doc_vid"]
        ELSE IF ~ok
        THEN Fail(x1, "failed to delete document", FailedEntry(item, document, e.doc))
        ELSE [x1 EXCEPT !.st = Deleted(@, e.doc, archive_docs)]

\* the body of the loop of lines 350-399 for one entry: four try blocks
CleanupReattachOne(x, e, f) ==
    DeleteDocument(
        TagDocument(CleanupTagItem(CleanupAttach(x, e, f), e, f),
                    e, e.by_title, CleanupDocName(e), f),
        e, e.by_title, CleanupDocName(e), f)

\* a removal that deletes the document before it tags it
CleanupRemoveOneDeleteFirst(x, e, f) ==
    TagDocument(DeleteDocument([x EXCEPT !.dv = e.vault], e, e.title, e.title, f),
                e, e.title, e.title, f)

\* the body of the loop of lines 404-425 for one entry
CleanupRemoveOne(x, e, f) ==
    DeleteDocument(TagDocument([x EXCEPT !.dv = e.vault], e, e.title, e.title, f),
                   e, e.title, e.title, f)

\* which calls the store fails: at most n of them
FailFlags(n) ==
    { f \in [dl : BOOLEAN, at : BOOLEAN, it : BOOLEAN, dr : BOOLEAN,
             dt : BOOLEAN, de : BOOLEAN] :
        Cardinality({k \in {"dl", "at", "it", "dr", "dt", "de"} : f[k]}) <= n }

(***************************************************************************)
(* cleanup_documents: the actions.                                         *)
(***************************************************************************)
\* at most n ids of S
UpTo(S, n) == { F \in SUBSET S : Cardinality(F) <= n }

FailedGets(gets) == Len(SelectSeq(gets, LAMBDA c : ~c.ok))

Exec(st, hp, failed, dv) ==
    [st |-> st, hp |-> hp, calls |-> <<>>, failed |-> failed, dv |-> dv,
     crash |-> "", nf |-> 0, raised |-> FALSE]

\* lines 163-194: list, precheck, empty accumulators
CleanupStart ==
    /\ pc = "cleanup"
    /\ LET all_docs == SelectSeq(ListItems(store, order, FALSE, <<>>),
                                 LAMBDA i : store[i].category = "DOCUMENT")
           item_whitelist == opts.item_whitelist \o opts.doc_whitelist
           item_blacklist == opts.item_blacklist \o opts.doc_blacklist
           reason(i) == PrecheckReason(store[i].title, store[i].tags,
                                       item_whitelist, item_blacklist,
                                       opts.tag_whitelist, opts.tag_blacklist)
           skip[k \in 0..Len(all_docs)] ==
               IF k = 0 THEN <<>>
               ELSE IF reason(all_docs[k]) = "" THEN skip[k - 1]
               ELSE DictAppend(skip[k - 1], reason(all_docs[k]),
                               DocEntry(store, all_docs[k], ""))
       IN  /\ todo' = SelectSeq(all_docs, LAMBDA i : reason(i) = "")
           /\ acc' = [EmptyAcc EXCEPT !.skipped_docs = skip[Len(all_docs)]]
    /\ all_itms_w_archive' =
           SelectSeq(ListItems(store, order, TRUE, opts.tag_whitelist),
                     LAMBDA i : store[i].category # "DOCUMENT")
    /\ removed_doc_ids' = {}
    /\ heap' = [id \in Ids |-> store[id].tags]
    /\ doc_vid' = UNBOUND
    /\ snap' = [store |-> store, calls |-> Len(calls)]
    /\ pc' = "cl_check"
    /\ UNCHANGED <<opts, store, order, cur, qi, ref_name, calls, reports, asked,
                   nfail, crash, first, rcall>>

\* lines 199-301: one turn of the checking loop
CleanupDoc ==
    /\ pc = "cl_check"
    /\ todo # <<>>
    /\ \E F \in UpTo(ItemIds \cup {Head(todo)}, MaxFailures - nfail) :
         LET r == ClassifyDoc(acc, store, all_itms_w_archive, Head(todo), F,
                              confirm_before_modifying)
         IN  /\ acc' = r.acc
             /\ calls' = calls \o r.gets
             /\ nfail' = nfail + FailedGets(r.gets)
             /\ removed_doc_ids' = IF r.removed THEN removed_doc_ids \cup {Head(todo)}
                                   ELSE removed_doc_ids
    /\ todo' = Tail(todo)
    /\ UNCHANGED <<opts, store, order, pc, cur, qi, all_itms_w_archive, heap,
                   ref_name, doc_vid, reports, asked, snap, crash, first, rcall>>

\* the first loop with work, of the two executor loops
CleanupQueue(a) ==
    IF DictTotal(a.reattached_docs) > 0 THEN "cl_reattach"
    ELSE IF DictTotal(a.removed_docs) > 0 THEN "cl_remove"
    ELSE "cl_report"

\* lines 306-334: the batch confirmation
CleanupConfirm ==
    /\ pc = "cl_check"
    /\ todo = <<>>
    /\ IF confirm_before_modifying
          /\ (DictTotal(acc.removed_docs) > 0 \/ DictTotal(acc.reattached_docs) > 0)
       THEN \E rsp \in Replies :
               /\ asked' = Append(asked, [prompt |-> "cleanup", rsp |-> rsp, about |-> NoSubject])
               /\ pc' = IF Cancelled(rsp) THEN "done" ELSE "cl_pending"
       ELSE /\ pc' = "cl_pending"
            /\ UNCHANGED asked
    /\ UNCHANGED <<opts, store, order, todo, cur, qi, acc, removed_doc_ids,
                   all_itms_w_archive, heap, ref_name, doc_vid, calls, reports,
                   snap, nfail, crash, first, rcall>>

\* lines 336-346: the pending removals
CleanupPending ==
    /\ pc = "cl_pending"
    /\ IF DictTotal(acc.removal_pending_docs) > 0
       THEN \E rsp \in Replies :
               /\ asked' = Append(asked, [prompt |-> "pending", rsp |-> rsp, about |-> NoSubject])
               /\ acc' = IF Answer(rsp) = <<"y">>
                         THEN [acc EXCEPT !.removed_docs =
                                  DictMerge(@, acc.removal_pending_docs)]
                         ELSE acc
       ELSE UNCHANGED <<asked, acc>>
    /\ pc' = CleanupQueue(acc')
    /\ qi' = 1
    /\ UNCHANGED <<opts, store, order, todo, cur, removed_doc_ids,
                   all_itms_w_archive, heap, ref_name, doc_vid, calls, reports,
                   snap, nfail, crash, first, rcall>>

\* commit an executor state
Commit(x) ==
    /\ store' = x.st
    /\ heap' = x.hp
    /\ calls' = calls \o x.calls
    /\ acc' = [acc EXCEPT !.failed_docs = x.failed]
    /\ doc_vid' = x.dv
    /\ nfail' = nfail + x.nf
    /\ crash' = x.crash

\* lines 350-399: one turn of the reattach loop
CleanupReattach ==
    /\ pc = "cl_reattach"
    /\ LET queue == DictValues(acc.reattached_docs)
       IN  \E f \in FailFlags(MaxFailures - nfail) :
             LET x == CleanupReattachOne(
                          Exec(store, heap, acc.failed_docs, doc_vid), queue[qi], f)
             IN  /\ Commit(x)
                 /\ pc' = IF x.crash # "" THEN "crashed"
                          ELSE IF qi < Len(queue) THEN "cl_reattach"
                          ELSE IF DictTotal(acc.removed_docs) > 0 THEN "cl_remove"
                          ELSE "cl_report"
                 /\ qi' = IF x.crash # "" THEN qi
                          ELSE IF qi < Len(queue) THEN qi + 1 ELSE 1
    /\ UNCHANGED <<opts, order, todo, cur, removed_doc_ids, all_itms_w_archive,
                   ref_name, reports, asked, snap, first, rcall>>

\* lines 403-425: one turn of the remove loop
CleanupRemove ==
    /\ pc = "cl_remove"
    /\ LET removed_docs_list == DictValues(acc.removed_docs)
       IN  \E f \in FailFlags(MaxFailures - nfail) :
             LET x == CleanupRemoveOne(
                          Exec(store, heap, acc.failed_docs, doc_vid),
                          removed_docs_list[qi], f)
             IN  /\ Commit(x)
                 /\ pc' = IF qi < Len(removed_docs_list) THEN "cl_remove"
                          ELSE "cl_report"
                 /\ qi' = IF qi < Len(removed_docs_list) THEN qi + 1 ELSE 1
    /\ UNCHANGED <<opts, order, todo, cur, removed_doc_ids, all_itms_w_archive,
                   ref_name, reports, asked, snap, first, rcall>>

Row(doc, kind, cols) == [doc |-> doc, kind |-> kind, cols |-> cols]

\* every entry of the five accumulators
Entries(a) ==
    DictValues(a.reattached_docs) \o DictValues(a.removed_docs)
    \o DictValues(a.removal_pending_docs) \o DictValues(a.skipped_docs)
    \o DictValues(a.failed_docs)

\* the records some accumulator holds an entry about
Classified(a) == { Entries(a)[i].doc : i \in 1..Len(Entries(a)) } \ {""}

\* a report file; classified notes the records the run had classified
Report(mode, rows, a) == [mode |-> mode, rows |-> rows, classified |-> Classified(a)]

\* [(k, e) for k, v in d.items() for e in v]
RECURSIVE DictItems(_)
DictItems(d) ==
    IF d = <<>> THEN <<>>
    ELSE [i \in 1..Len(Head(d).v) |-> [k |-> Head(d).k, e |-> Head(d).v[i]]]
         \o DictItems(Tail(d))

\* lines 449-466: the rows of cleanup_documents' report
CleanupRows(a) ==
    LET reattached == DictItems(a.reattached_docs)
        removed == DictItems(a.removed_docs)
        skipped == DictItems(a.skipped_docs)
        failed == DictItems(a.failed_docs)
    IN  [i \in 1..Len(reattached) |->
            Row(reattached[i].e.doc, "reattached",
                <<reattached[i].e.title, "reattached", reattached[i].e.by_title,
                  "matched by item/doc name">>)]
        \o [i \in 1..Len(removed) |->
            Row(removed[i].e.doc, "removed",
                <<removed[i].e.title, "removed", removed[i].e.by_title, removed[i].k>>)]
        \o [i \in 1..Len(skipped) |->
            Row(skipped[i].e.doc, "skipped",
                <<skipped[i].e.title, "skipped", <<>>, skipped[i].k>>)]
        \o [i \in 1..Len(failed) |->
            Row(failed[i].e.doc, "failed",
                <<failed[i].e.item, failed[i].k, failed[i].e.document,
                  failed[i].e.error>>)]

\* lines 427-470: the report, and the end of the process
CleanupReport ==
    /\ pc = "cl_report"
    /\ reports' = Append(reports, Report("cleanup", CleanupRows(acc), acc))
    /\ pc' = "done"
    /\ UNCHANGED <<opts, store, order, todo, cur, qi, acc, removed_doc_ids,
                   all_itms_w_archive, heap, ref_name, doc_vid, calls, asked,
                   snap, nfail, crash, first, rcall>>

(***************************************************************************)
(* main (reference mode).                                                  *)
(***************************************************************************)
\* an entry of skipped_docs or failed_docs of main; doc is the record the
\* entry is about, "" for an entry about an item alone
MEntry(item, document, link, doc) ==
    [item |-> item, document |-> document, link |-> link, error |-> "e", doc |-> doc]

\* S(f"item get {id} --share-link --vault {vid}")
LinkCall(st, id, vid, fail) ==
    Call("link", id, vid, FALSE, FALSE, InVault(st, id, vid) /\ ~fail, "")

\* lines 499 and 546-567: list, precheck, empty accumulators
MainStart ==
    /\ pc = "main"
    /\ LET all_itms == SelectSeq(ListItems(store, order, FALSE, <<>>),
                                 LAMBDA i : store[i].category # "DOCUMENT")
           reason(i) == PrecheckReason(store[i].title, store[i].tags,
                                       opts.item_whitelist, opts.item_blacklist,
                                       opts.tag_whitelist, opts.tag_blacklist)
           skip[k \in 0..Len(all_itms)] ==
               IF k = 0 THEN <<>>
               ELSE IF reason(all_itms[k]) = "" THEN skip[k - 1]
               ELSE DictAppend(skip[k - 1], reason(all_itms[k]),
                               MEntry(store[all_itms[k]].title, <<>>, "", ""))
       IN  /\ todo' = SelectSeq(all_itms, LAMBDA i : reason(i) = "")
           /\ acc' = [EmptyAcc EXCEPT !.skipped_docs = skip[Len(all_itms)]]
    /\ heap' = [id \in Ids |-> store[id].tags]
    /\ ref_name' = UNBOUND
    /\ snap' = [store |-> store, calls |-> Len(calls)]
    /\ cur' = NoCur
    /\ pc' = "m_check"
    /\ UNCHANGED <<opts, store, order, qi, removed_doc_ids, all_itms_w_archive,
                   doc_vid, calls, reports, asked, nfail, crash, first, rcall>>

\* lines 576-600: fetch the next item and its reference fields
MainItem ==
    /\ pc = "m_check"
    /\ cur = NoCur
    /\ todo # <<>>
    /\ \E F \in UpTo({"get", "link"}, MaxFailures - nfail) :
         LET itm_i == Head(todo)
             get == GetCall(store, itm_i, "get" \in F, "")
             itm_name == store[itm_i].title
             itm_vid == store[itm_i].vault
             refs == SelectSeq(store[itm_i].fields, LAMBDA r : r.type = "REFERENCE")
             lnk == LinkCall(store, itm_i, itm_vid, "link" \in F)
         IN  IF ~get.ok
             THEN /\ acc' = [acc EXCEPT !.failed_docs =
                               DictAppend(@, "failed to get item",
                                          MEntry(itm_name, <<>>, "", ""))]
                  /\ calls' = Append(calls, get)
                  /\ nfail' = nfail + 1
                  /\ cur' = NoCur
             ELSE IF generate_share_links /\ ~lnk.ok
             THEN /\ acc' = [acc EXCEPT !.failed_docs =
                               DictAppend(@, "failed to get item link",
                                          MEntry(itm_name, <<>>, "", ""))]
                  /\ calls' = calls \o <<get, lnk>>
                  /\ nfail' = nfail + 1
                  /\ cur' = NoCur
             ELSE /\ acc' = acc
                  /\ calls' = IF generate_share_links THEN calls \o <<get, lnk>>
                              ELSE Append(calls, get)
                  /\ nfail' = nfail
                  /\ cur' = IF refs = <<>> THEN NoCur
                            ELSE [id |-> itm_i, name |-> itm_name, vid |-> itm_vid,
                                  lnk |-> IF generate_share_links THEN "lnk" ELSE "",
                                  refs |-> refs]
    /\ todo' = Tail(todo)
    /\ UNCHANGED <<opts, store, order, pc, qi, removed_doc_ids, all_itms_w_archive,
                   heap, ref_name, doc_vid, reports, asked, snap, crash, first, rcall>>

\* an entry that takes the item's vault from the document
ReattachEntryDocVault(st, c, ref, name) ==
    [doc |-> ref.value, item |-> c.name, document |-> name, link |-> c.lnk,
     ref_vid |-> st[ref.value].vault, ref_sec |-> ref.section,
     ref_field_id |-> ref.id, ref_file_name |-> st[ref.value].files[1].name,
     item_id |-> c.id, item_vid |-> st[ref.value].vault, item_tags |-> st[c.id].tags,
     doc_tags |-> st[ref.value].tags, error |-> ""]

\* lines 643-656: the entry queued for one reference
ReattachEntry(st, c, ref, name) ==
    [doc |-> ref.value, item |-> c.name, document |-> name, link |-> c.lnk,
     ref_vid |-> st[ref.value].vault, ref_sec |-> ref.section,
     ref_field_id |-> ref.id, ref_file_name |-> st[ref.value].files[1].name,
     item_id |-> c.id, item_vid |-> c.vid, item_tags |-> st[c.id].tags,
     doc_tags |-> st[ref.value].tags, error |-> ""]

\* a check that records nothing for a document with several files
MoreThanOneFileSilent(a, st, c, ref_id, name) == a

\* lines 637-639: the skip recorded for a document with more than one file
MoreThanOneFile(a, st, c, ref_id, name) ==
    IF Len(st[ref_id].files) > 1
    THEN [a EXCEPT !.skipped_docs =
             DictAppend(@, "more than one file", MEntry(c.name, name, c.lnk, ref_id))]
    ELSE a

\* the category of the referenced record is tested before its title
RefSkipReasonCategoryFirst(wbla, category) ==
    IF category # "DOCUMENT" THEN "not a document"
    ELSE IF Denied(wbla)
    THEN (IF ~wbla[2] THEN "doc blacklisted" ELSE "doc not on whitelist")
    ELSE ""

\* lines 610-618: the reason a fetched reference is skipped for, "" when it
\* goes on: the title is held against the document lists first, the
\* category is tested second
RefSkipReason(wbla, category) ==
    IF Denied(wbla)
    THEN (IF ~wbla[2] THEN "doc blacklisted" ELSE "doc not on whitelist")
    ELSE IF category # "DOCUMENT" THEN "not a document"
    ELSE ""

\* lines 602-661: one reference of the current item.  The result is
\* [acc, calls, ref_name, crash, prompted]; F names the calls the store fails
\* and rsp is the operator's answer at the supervised gate, asked when
\* prompted.
CheckRef(a, st, c, ref, bound_name, F, rsp) ==
    LET ref_id == ref.value
        get == GetCall(st, ref_id, "get" \in F, ref_id)
        title == st[ref_id].title
        wbla == allowed_by_white_black_lists(title, opts.doc_whitelist,
                                             opts.doc_blacklist, FALSE)
        name == sanitize(replace(title, Sep \o c.name, <<>>))
        lnk == LinkCall(st, ref_id, st[ref_id].vault, "link" \in F)
        gets == IF verbose /\ generate_share_links THEN <<get, lnk>> ELSE <<get>>
        skipped(b, rs, nm) ==
            [b EXCEPT !.skipped_docs = DictAppend(@, rs, MEntry(c.name, nm, c.lnk, ref_id))]
        failed(b, nm) ==
            [b EXCEPT !.failed_docs =
                DictAppend(@, "failed to check document", MEntry(c.name, nm, c.lnk, ref_id))]
        out(b, cs, nm, cr) ==
            [acc |-> b, calls |-> cs, ref_name |-> nm, crash |-> cr, prompted |-> FALSE]
        asked_out(b, cs, nm, cr) ==
            [acc |-> b, calls |-> cs, ref_name |-> nm, crash |-> cr,
             prompted |-> verbose /\ opts.supervise_run]
        many == MoreThanOneFile(a, st, c, ref_id, name)
    IN  IF ~get.ok
        THEN (IF bound_name = UNBOUND
              THEN out(a, <<get>>, bound_name, "UnboundLocalError: ref_name")
              ELSE out(failed(a, bound_name), <<get>>, bound_name, ""))
        ELSE IF RefSkipReason(wbla, st[ref_id].category) # ""
        THEN out(skipped(a, RefSkipReason(wbla, st[ref_id].category), title),
                 <<get>>, title, "")
        ELSE IF verbose /\ generate_share_links /\ ~lnk.ok
        THEN out(failed(a, name), gets, name, "")
        ELSE IF verbose /\ opts.supervise_run /\ UserSkips(rsp)
        THEN asked_out(skipped(a, "user skipped", name), gets, name, "")
        ELSE IF ~st[ref_id].has_files
        THEN asked_out(failed(a, name), gets, name, "")
        ELSE IF Len(st[ref_id].files) = 0
        THEN asked_out(many, gets, name, "IndexError")
        ELSE asked_out([many EXCEPT !.reattached_docs =
                     DictAppend(@, ref_id, ReattachEntry(st, c, ref, name))],
                 gets, name, "")

\* lines 602-661 as a step of the process
MainRef ==
    /\ pc = "m_check"
    /\ cur # NoCur
    /\ \E F \in UpTo({"get", "link"}, MaxFailures - nfail) :
       \E rsp \in IF opts.supervise_run THEN Replies ELSE {<<>>} :
         LET r == CheckRef(acc, store, cur, Head(cur.refs), ref_name, F, rsp)
         IN  /\ acc' = r.acc
             /\ calls' = calls \o r.calls
             /\ nfail' = nfail + FailedGets(r.calls)
             /\ ref_name' = r.ref_name
             /\ crash' = r.crash
             /\ pc' = IF r.crash # "" THEN "crashed" ELSE "m_check"
             /\ asked' = IF r.prompted
                         THEN Append(asked, [prompt |-> "supervise", rsp |-> rsp,
                                             about |-> Subject(cur, Head(cur.refs))])
                         ELSE asked
    /\ cur' = IF Len(cur.refs) = 1 THEN NoCur ELSE [cur EXCEPT !.refs = Tail(@)]
    /\ UNCHANGED <<opts, store, order, todo, qi, removed_doc_ids,
                   all_itms_w_archive, heap, doc_vid, reports, snap, first, rcall>>

\* lines 664-685: nothing to do, or the batch confirmation
MainGate ==
    /\ pc = "m_check"
    /\ cur = NoCur
    /\ todo = <<>>
    /\ IF DictTotal(acc.reattached_docs) = 0
       THEN pc' = "returned" /\ UNCHANGED asked
       ELSE IF confirm_before_modifying
       THEN \E rsp \in Replies :
               /\ asked' = Append(asked, [prompt |-> "main", rsp |-> rsp, about |-> NoSubject])
               /\ pc' = IF Cancelled(rsp) THEN "returned" ELSE "m_exec"
       ELSE pc' = "m_exec" /\ UNCHANGED asked
    /\ qi' = 1
    /\ UNCHANGED <<opts, store, order, todo, cur, acc, removed_doc_ids,
                   all_itms_w_archive, heap, ref_name, doc_vid, calls, reports,
                   snap, nfail, crash, first, rcall>>

\* line 357 and 642: name.replace(".", "\\.").replace('"', '').replace("'", "")
escaped(name) == DropChars(replace(name, <<".">>, <<"\\", ".">>), {"\"", "'"})

\* lines 730-732: the except clause of the reattach loop
MainFailure(x, e) ==
    Fail(x, "failed to reattach document", MEntry(e.item, e.document, e.link, e.doc))

\* line 706
MainDownload(x, e, f) ==
    LET ok == InVault(x.st, e.doc, e.ref_vid) /\ ~f.dl
        x1 == Issue(x, Call("download", e.doc, e.ref_vid, FALSE, FALSE, ok, e.doc), f.dl)
    IN  IF ok THEN x1 ELSE MainFailure(x1, e)

\* line 709
MainAttach(x, e, f) ==
    LET ok == InVault(x.st, e.item_id, e.item_vid) /\ ~f.at
        x1 == Issue(x, Call("attach", e.item_id, e.item_vid, dry_run, FALSE, ok, e.doc),
                    f.at)
    IN  IF x.raised THEN x
        ELSE IF ~ok THEN MainFailure(x1, e)
        ELSE IF dry_run THEN x1
        ELSE [x1 EXCEPT !.st = WithFile(@, e.item_id, escaped(e.ref_file_name),
                                        x.st[e.doc].files[1].size)]

\* lines 711-716
MainTagItem(x, e, f) ==
    LET itm_tags == Append(x.hp[e.item_id], reattached_tag)
        ok == InVault(x.st, e.item_id, e.item_vid) /\ ~f.it
        x1 == [Issue(x, TagCall(e.item_id, e.item_vid, dry_run, ok, e.doc, itm_tags), f.it)
                 EXCEPT !.hp = Appended(@, e.item_id, reattached_tag)]
    IN  IF x.raised \/ reattached_tag = <<>> \/ InList(reattached_tag, x.hp[e.item_id])
        THEN x
        ELSE IF ~ok THEN MainFailure(x1, e)
        ELSE IF dry_run THEN x1
        ELSE [x1 EXCEPT !.st = WithTags(@, e.item_id, itm_tags)]

\* line 719
MainDeleteField(x, e, f) ==
    LET ok == InVault(x.st, e.item_id, e.item_vid) /\ ~f.dr
        x1 == Issue(x, Call("delete_field", e.item_id, e.item_vid, dry_run, FALSE, ok,
                            e.doc), f.dr)
    IN  IF x.raised THEN x
        ELSE IF ~ok THEN MainFailure(x1, e)
        ELSE IF dry_run THEN x1
        ELSE [x1 EXCEPT !.st = WithoutField(@, e.item_id, e.ref_field_id)]

\* lines 722-725
MainTagDocument(x, e, f) ==
    LET tag == reattached_tag \o DeletedSuffix
        ok == InVault(x.st, e.doc, e.ref_vid) /\ ~f.dt
        x1 == Issue(x, TagCall(e.doc, e.ref_vid, dry_run, ok, e.doc, Append(e.doc_tags, tag)), f.dt)
    IN  IF x.raised \/ InList(tag, e.doc_tags) THEN x
        ELSE IF ~ok THEN MainFailure(x1, e)
        ELSE IF dry_run THEN x1
        ELSE [x1 EXCEPT !.st = WithTags(@, e.doc, Append(e.doc_tags, tag))]

\* lines 728-729
MainDelete(x, e, f) ==
    LET ok == InVault(x.st, e.doc, e.ref_vid) /\ ~f.de
        x1 == Issue(x, Call("delete", e.doc, e.ref_vid, FALSE, archive_docs, ok, e.doc),
                    f.de)
    IN  IF x.raised \/ dry_run THEN x
        ELSE IF ~ok THEN MainFailure(x1, e)
        ELSE [x1 EXCEPT !.st = Deleted(@, e.doc, archive_docs)]

\* a reattachment that deletes the reference field before it attaches
MainReattachOneFieldFirst(x, e, f) ==
    MainDelete(
        MainTagDocument(
            MainTagItem(
                MainAttach(MainDeleteField(MainDownload(Try(x), e, f), e, f), e, f),
                e, f),
            e, f),
        e, f)

\* lines 689-732: one reattachment, a single try block
MainReattachOne(x, e, f) ==
    MainDelete(
        MainTagDocument(
            MainDeleteField(
                MainTagItem(MainAttach(MainDownload(Try(x), e, f), e, f), e, f),
                e, f),
            e, f),
        e, f)

\* lines 687-732: one turn of the reattach loop
MainExec ==
    /\ pc = "m_exec"
    /\ LET queue == DictValues(acc.reattached_docs)
       IN  \E f \in FailFlags(MaxFailures - nfail) :
             LET x == MainReattachOne(
                          Exec(store, heap, acc.failed_docs, doc_vid), queue[qi], f)
             IN  /\ Commit(x)
                 /\ pc' = IF qi < Len(queue) THEN "m_exec" ELSE "m_report"
                 /\ qi' = IF qi < Len(queue) THEN qi + 1 ELSE 1
    /\ UNCHANGED <<opts, order, todo, cur, removed_doc_ids, all_itms_w_archive,
                   ref_name, reports, asked, snap, first, rcall>>

\* lines 771-783: the rows of main's report
MainRows(a) ==
    LET reattached == DictItems(a.reattached_docs)
        skipped == DictItems(a.skipped_docs)
        failed == DictItems(a.failed_docs)
    IN  [i \in 1..Len(reattached) |->
            Row(reattached[i].e.doc, "reattached",
                <<reattached[i].e.item, reattached[i].e.document,
                  reattached[i].e.link, "reattached">>)]
        \o [i \in 1..Len(skipped) |->
            Row(skipped[i].e.doc, "skipped",
                <<skipped[i].e.item, skipped[i].e.document, skipped[i].e.link,
                  "skipped: " \o skipped[i].k>>)]
        \o [i \in 1..Len(failed) |->
            Row(failed[i].e.doc, "failed",
                <<failed[i].e.item, failed[i].e.document, failed[i].e.link,
                  "error: " \o failed[i].e.error>>)]

\* lines 733-785: the report
MainReport ==
    /\ pc = "m_report"
    /\ reports' = Append(reports, Report("main", MainRows(acc), acc))
    /\ pc' = "returned"
    /\ UNCHANGED <<opts, store, order, todo, cur, qi, acc, removed_doc_ids,
                   all_itms_w_archive, heap, ref_name, doc_vid, calls, asked,
                   snap, nfail, crash, first, rcall>>

\* lines 848-865: the follow-up question after main has returned
Followup ==
    /\ pc = "returned"
    /\ \E rsp \in Replies :
         /\ asked' = Append(asked, [prompt |-> "followup", rsp |-> rsp, about |-> NoSubject])
         /\ pc' = IF Answer(rsp) # <<"n">> THEN "cleanup" ELSE "done"
    /\ UNCHANGED <<opts, store, order, todo, cur, qi, acc, removed_doc_ids,
                   all_itms_w_archive, heap, ref_name, doc_vid, calls, reports,
                   snap, nfail, crash, first, rcall>>

(***************************************************************************)
(* The process: __main__ (lines 787-865) runs cleanup_documents alone when *)
(* --cleanup-documents is given, else main and then, unless the operator   *)
(* declines, cleanup_documents.                                            *)
(***************************************************************************)
NoLists ==
    [item_whitelist |-> <<>>, item_blacklist |-> <<>>, doc_whitelist |-> <<>>,
     doc_blacklist |-> <<>>, tag_whitelist |-> <<>>, tag_blacklist |-> <<>>]

\* The option sets of the model: --verbose, --generate-share-links and the
\* white and black lists are not given; --delete-docs and an empty
\* --reattach-tag are not combined.
Options ==
    { [dry_run |-> d, archive_docs |-> at[1], supervise_run |-> g = "supervise",
       confirm_before_modifying |-> g = "confirm", verbose |-> FALSE,
       generate_share_links |-> FALSE, reattached_tag |-> at[2],
       cleanup_documents |-> c] :
        d \in BOOLEAN, g \in {"none", "confirm", "supervise"}, c \in BOOLEAN,
        at \in { <<TRUE, RT>>, <<FALSE, RT>>, <<TRUE, <<>> >> } }

WithLists(o) ==
    [k \in DOMAIN o \cup DOMAIN NoLists |->
        IF k \in DOMAIN NoLists THEN NoLists[k] ELSE o[k]]

\* The white and black lists given on the command line, when any are given.
Lists ==
    { [NoLists EXCEPT !.item_whitelist = << <<"j">> >>, !.doc_blacklist = << <<"p">> >>],
      [NoLists EXCEPT !.item_whitelist = << <<"x">>, <<"k">> >>],
      [NoLists EXCEPT !.item_blacklist = << <<"j">> >>],
      [NoLists EXCEPT !.doc_whitelist = << <<"k">>, <<"p", " ", "-", " ", "j">> >>],
      [NoLists EXCEPT !.tag_whitelist = << RT >>],
      [NoLists EXCEPT !.tag_blacklist = << <<"o">> >>],
      [NoLists EXCEPT !.tag_whitelist = << <<"w">> >>, !.tag_blacklist = << <<"o">> >>],
      [NoLists EXCEPT !.item_whitelist = << <<"k">> >>, !.item_blacklist = << <<"j">> >>] }

\* The option sets with lists: a live run without prompts, in either mode.
Listed ==
    { [k \in DOMAIN o \cup DOMAIN l |-> IF k \in DOMAIN l THEN l[k] ELSE o[k]] :
        o \in { x \in Options : /\ ~x.dry_run
                                /\ x.archive_docs
                                /\ x.reattached_tag = RT
                                /\ ~x.supervise_run
                                /\ ~x.confirm_before_modifying },
        l \in Lists }

ListedOrder == <<"I1", "I2", "D1", "D2">>
SwappedOrder == <<"I2", "I1", "D2", "D1">>

NoTag == <<>>
OwnTag == <<"o">>
DelTag == <<RT \o DeletedSuffix>>

\* The stores a process starts on, with the order they list their records in.
\* Arguments of MkStore: I1's files, I1's references, I1's tags; I2's state,
\* references, files; D1's files, D1's tags; D2's title, D2's vault.
Worlds ==
    { \* I1 references D1 and already has an unrelated file
      <<MkStore("other", <<"D1">>, NoTag, "ARCHIVED", <<>>, "none",
                "one", NoTag, T_KJ, "v1"), ListedOrder>>,
      \* two reference fields of I1 name the same document
      <<MkStore("none", <<"D1", "D1">>, NoTag, "ARCHIVED", <<>>, "none",
                "one", NoTag, T_Ip, "v1"), ListedOrder>>,
      \* I1 carries a tag of its own and references both documents
      <<MkStore("none", <<"D1", "D2">>, <<OwnTag>>, "ARCHIVED", <<>>, "none",
                "one", NoTag, T_KJ, "v1"), ListedOrder>>,
      \* I1 and D1 carry the reattached tag and a tag of their own
      <<MkStore("other", <<"D1">>, <<RT, OwnTag>>, "ARCHIVED", <<>>, "none",
                "one", <<RT, OwnTag>>, T_Ip, "v1"), ListedOrder>>,
      \* D1's owner by name carries a tag of its own and holds another file
      <<MkStore("other", <<>>, <<OwnTag>>, "ARCHIVED", <<>>, "none",
                "one", NoTag, T_Ip, "v1"), ListedOrder>>,
      \* I1 references both documents
      <<MkStore("none", <<"D1", "D2">>, NoTag, "ARCHIVED", <<>>, "none",
                "one", NoTag, T_KJ, "v1"), ListedOrder>>,
      \* the referenced document holds two files
      <<MkStore("none", <<"D1">>, NoTag, "ARCHIVED", <<>>, "none",
                "two", NoTag, T_Ip, "v1"), ListedOrder>>,
      \* the referenced document has no "files" key
      <<MkStore("other", <<"D1">>, NoTag, "ARCHIVED", <<>>, "none",
                "nokey", NoTag, T_Ip, "v1"), ListedOrder>>,
      \* the referenced document has an empty "files" list
      <<MkStore("none", <<"D1">>, NoTag, "ARCHIVED", <<>>, "none",
                "empty", NoTag, T_Ip, "v1"), ListedOrder>>,
      \* I1 references a record that is no document, then D1
      <<MkStore("none", <<"I2", "D1">>, NoTag, "ACTIVE", <<>>, "none",
                "one", NoTag, T_Ip, "v1"), ListedOrder>>,
      \* orphans: I1 holds a file of D1's size, archived I2 references D1
      <<MkStore("size", <<>>, NoTag, "ARCHIVED", <<"D1">>, "none",
                "one", NoTag, T_KJ, "v1"), ListedOrder>>,
      <<MkStore("size", <<>>, NoTag, "ARCHIVED", <<"D1">>, "none",
                "one", NoTag, T_KJ, "v1"), SwappedOrder>>,
      \* orphans: I1 holds a file of D1's base name
      <<MkStore("name", <<>>, NoTag, "ARCHIVED", <<>>, "none",
                "one", NoTag, T_Ip, "v1"), ListedOrder>>,
      \* a re-run: D1 already carries the deleted tag, I1 is tagged
      <<MkStore("other", <<>>, <<RT>>, "ARCHIVED", <<>>, "none",
                "one", DelTag, T_Ip, "v1"), ListedOrder>>,
      <<MkStore("other", <<"D1">>, <<RT>>, "ARCHIVED", <<>>, "none",
                "one", DelTag, T_KJ, "v2"), SwappedOrder>>,
      \* D2 lives in another vault than its owner
      <<MkStore("other", <<"D2">>, NoTag, "ARCHIVED", <<>>, "none",
                "blank", NoTag, T_KJ, "v2"), ListedOrder>>,
      \* two active owners, the first one without files
      <<MkStore("none", <<>>, NoTag, "ACTIVE", <<>>, "other",
                "one", NoTag, T_KJ, "v1"), ListedOrder>>,
      \* D2's title ends in a short extension after the separator
      <<MkStore("other", <<>>, NoTag, "ARCHIVED", <<>>, "none",
                "one", NoTag, T_KJp, "v1"), ListedOrder>>,
      \* D2's title ends in a dot and five characters
      <<MkStore("other", <<>>, NoTag, "ARCHIVED", <<>>, "none",
                "one", NoTag, T_KJx, "v1"), ListedOrder>>,
      \* the only item named like D1's owner is active and holds no file
      <<MkStore("none", <<>>, NoTag, "DELETED", <<>>, "none",
                "one", NoTag, T_Ip, "v1"), ListedOrder>>,
      \* two active owners with files: I1 holds a file of D1's size
      <<MkStore("size", <<>>, NoTag, "ACTIVE", <<>>, "other",
                "one", NoTag, T_Ip, "v1"), ListedOrder>>,
      <<MkStore("size", <<>>, NoTag, "ACTIVE", <<>>, "other",
                "one", NoTag, T_Ip, "v1"), SwappedOrder>> }

Init ==
    /\ opts \in { WithLists(o) : o \in Options } \cup Listed
    /\ \E w \in Worlds : store = w[1] /\ order = w[2]
    /\ pc = IF opts.cleanup_documents THEN "cleanup" ELSE "main"
    /\ todo = <<>>
    /\ cur = NoCur
    /\ qi = 1
    /\ acc = EmptyAcc
    /\ removed_doc_ids = {}
    /\ all_itms_w_archive = <<>>
    /\ heap = [id \in Ids |-> <<>>]
    /\ ref_name = UNBOUND
    /\ doc_vid = UNBOUND
    /\ calls = <<>>
    /\ reports = <<>>
    /\ asked = <<>>
    /\ snap = [store |-> store, calls |-> 0]
    /\ nfail = 0
    /\ crash = ""
    /\ first = NoRun
    /\ rcall = NoCall

Next ==
    \/ MainStart
    \/ MainItem
    \/ MainRef
    \/ MainGate
    \/ MainExec
    \/ MainReport
    \/ Followup
    \/ CleanupStart
    \/ CleanupDoc
    \/ CleanupConfirm
    \/ CleanupPending
    \/ CleanupReattach
    \/ CleanupRemove
    \/ CleanupReport

Spec == Init /\ [][Next]_vars

(***************************************************************************)
(* A dry run followed by the real run: the operator first runs the process *)
(* with --dry-run, and then once more without it, on the same store and    *)
(* with the same answers.  The store fails no call of either process.      *)
(***************************************************************************)
ExecutorOps == {"download", "attach", "tag", "delete_field", "delete"}

\* the executor steps among the calls cs, each as [op, id, dec]
Steps(cs) ==
    LET ex == SelectSeq(cs, LAMBDA c : c.op \in ExecutorOps)
    IN  [i \in 1..Len(ex) |-> [op |-> ex[i].op, id |-> ex[i].id, dec |-> ex[i].dec]]

\* the classification a holds: everything but the executor's failures
Decided(a) ==
    [reattached_docs |-> a.reattached_docs, removed_docs |-> a.removed_docs,
     removal_pending_docs |-> a.removal_pending_docs,
     skipped_docs |-> a.skipped_docs]

InitPair ==
    /\ opts \in { WithLists(o) : o \in Options }
    /\ opts.dry_run
    /\ \E w \in Worlds : store = w[1] /\ order = w[2]
    /\ pc = IF opts.cleanup_documents THEN "cleanup" ELSE "main"
    /\ todo = <<>>
    /\ cur = NoCur
    /\ qi = 1
    /\ acc = EmptyAcc
    /\ removed_doc_ids = {}
    /\ all_itms_w_archive = <<>>
    /\ heap = [id \in Ids |-> <<>>]
    /\ ref_name = UNBOUND
    /\ doc_vid = UNBOUND
    /\ calls = <<>>
    /\ reports = <<>>
    /\ asked = <<>>
    /\ snap = [store |-> store, calls |-> 0]
    /\ nfail = MaxFailures
    /\ crash = ""
    /\ first = NoRun
    /\ rcall = NoCall

\* lines 787-865: the process is started again, now without --dry-run
Rerun ==
    /\ pc \in {"done", "crashed"}
    /\ ~first.ran
    /\ opts.dry_run
    /\ first' = [ran |-> TRUE, asked |-> asked, steps |-> Steps(calls),
                 decided |-> <<Decided(acc), reports>>, flip |-> 0]
    /\ opts' = [opts EXCEPT !.dry_run = FALSE]
    /\ pc' = IF opts.cleanup_documents THEN "cleanup" ELSE "main"
    /\ todo' = <<>>
    /\ cur' = NoCur
    /\ qi' = 1
    /\ acc' = EmptyAcc
    /\ removed_doc_ids' = {}
    /\ all_itms_w_archive' = <<>>
    /\ heap' = [id \in Ids |-> <<>>]
    /\ ref_name' = UNBOUND
    /\ doc_vid' = UNBOUND
    /\ calls' = <<>>
    /\ reports' = <<>>
    /\ asked' = <<>>
    /\ snap' = [store |-> store, calls |-> 0]
    /\ crash' = ""
    /\ UNCHANGED <<store, order, nfail, rcall>>

NextPair ==
    \/ Next
    \/ Rerun

SpecPair == InitPair /\ [][NextPair]_vars

(***************************************************************************)
(* A supervised run of main and the same run with one more refusal: main   *)
(* is run with --supervise, and then once more on the store the first run  *)
(* started on, with the same answers except that one document the operator *)
(* let pass is now refused.  The store fails no call of either run.        *)
(***************************************************************************)
InitGate ==
    /\ opts \in { WithLists(o) : o \in Options }
    /\ opts.supervise_run
    /\ ~opts.cleanup_documents
    /\ \E w \in Worlds : store = w[1] /\ order = w[2]
    /\ pc = "main"
    /\ todo = <<>>
    /\ cur = NoCur
    /\ qi = 1
    /\ acc = EmptyAcc
    /\ removed_doc_ids = {}
    /\ all_itms_w_archive = <<>>
    /\ heap = [id \in Ids |-> <<>>]
    /\ ref_name = UNBOUND
    /\ doc_vid = UNBOUND
    /\ calls = <<>>
    /\ reports = <<>>
    /\ asked = <<>>
    /\ snap = [store |-> store, calls |-> 0]
    /\ nfail = MaxFailures
    /\ crash = ""
    /\ first = NoRun
    /\ rcall = NoCall

\* lines 472-785: main is run again on the store of the first run
Redo ==
    /\ pc = "returned"
    /\ ~first.ran
    /\ \E j \in 1..Len(asked) :
         /\ asked[j].prompt = "supervise"
         /\ Answer(asked[j].rsp) # <<"n">>
         /\ first' = [ran |-> TRUE, asked |-> asked, steps |-> Steps(calls),
                      decided |-> <<Decided(acc), reports>>, flip |-> j]
    /\ store' = snap.store
    /\ pc' = "main"
    /\ todo' = <<>>
    /\ cur' = NoCur
    /\ qi' = 1
    /\ acc' = EmptyAcc
    /\ removed_doc_ids' = {}
    /\ all_itms_w_archive' = <<>>
    /\ heap' = [id \in Ids |-> <<>>]
    /\ ref_name' = UNBOUND
    /\ doc_vid' = UNBOUND
    /\ calls' = <<>>
    /\ reports' = <<>>
    /\ asked' = <<>>
    /\ snap' = [store |-> snap.store, calls |-> 0]
    /\ crash' = ""
    /\ UNCHANGED <<opts, order, nfail, rcall>>

NextGate ==
    \/ MainStart
    \/ MainItem
    \/ MainRef
    \/ MainGate
    \/ MainExec
    \/ MainReport
    \/ Redo

SpecGate == InitGate /\ [][NextGate]_vars

(***************************************************************************)
(* The wrapper R (lines 73-92) on its own: one command, answered by the    *)
(* store attempt after attempt.                                            *)
(***************************************************************************)
\* Most answers the store has ready for one command.
MaxAnswers == 2

\* the commands the program hands to R
Cmds ==
    {<<op, id>> : op \in {"item get", "document get", "item edit", "item delete"},
                  id \in Ids}
    \cup {<<"item list", "">>}

\* what one run of the command-line tool comes to: its output, or the error
\* subprocess.run raises for it
AnswerSet ==
    {[ok |-> TRUE, out |-> "out1"], [ok |-> TRUE, out |-> "out2"],
     [ok |-> FALSE, out |-> "err1"], [ok |-> FALSE, out |-> "err2"]}

\* R has been called and no attempt has been made yet
InitR ==
    /\ opts = CHOOSE o \in Listed : TRUE
    /\ store = MkStore("other", <<"D1">>, NoTag, "ARCHIVED", <<>>, "none",
                       "one", NoTag, T_KJ, "v1")
    /\ order = ListedOrder
    /\ pc = "call"
    /\ todo = <<>>
    /\ cur = NoCur
    /\ qi = 1
    /\ acc = EmptyAcc
    /\ removed_doc_ids = {}
    /\ all_itms_w_archive = <<>>
    /\ heap = [id \in Ids |-> <<>>]
    /\ ref_name = UNBOUND
    /\ doc_vid = UNBOUND
    /\ calls = <<>>
    /\ reports = <<>>
    /\ asked = <<>>
    /\ snap = [store |-> store, calls |-> 0]
    /\ nfail = 0
    /\ crash = ""
    /\ first = NoRun
    /\ \E cmd \in Cmds : \E answers \in [1..MaxAnswers -> AnswerSet] :
          rcall = [cmd |-> cmd, answers |-> answers, num_attempts |-> 0,
                   pc |-> "loop", value |-> ""]

\* lines 85-92: the while loop of R takes one turn
RStep ==
    /\ rcall.pc = "loop"
    /\ rcall' = RLoop(rcall)
    /\ UNCHANGED <<opts, store, order, pc, todo, cur, qi, acc, removed_doc_ids,
                   all_itms_w_archive, heap, ref_name, doc_vid, calls, reports,
                   asked, snap, nfail, crash, first>>

NextR ==
    \/ RStep

\* an attempt that can be made is made: R runs in the one thread of the
\* process and subprocess.run comes back
SpecR == InitR /\ [][NextR]_vars /\ WF_vars(RStep)

(***************************************************************************)
(* Properties.                                                             *)
(***************************************************************************)
\* how many entries of the five accumulators are about record d
Decisions(a, d) == Len(SelectSeq(Entries(a), LAMBDA e : e.doc = d))

\* how many rows of a report are about record d
RowsOf(r, d) == Len(SelectSeq(r.rows, LAMBDA row : row.doc = d))

\* C1: within one pass of a mode every document is recorded under at most one
\* of the reattach / remove / remove-pending / skip / failed accumulators, and
\* at most once there.
C1_OneDecisionPerDocument == \A d \in Ids : Decisions(acc, d) <= 1

\* C2: every record classified during a run that wrote its export appears in
\* the export as exactly one row.
C2_ExportedExactlyOnce ==
    \A i \in 1..Len(reports) :
        \A d \in reports[i].classified : RowsOf(reports[i], d) = 1

\* C3: no run ends in an uncaught error, and a mode that has returned has
\* written its report.
C3_AlwaysReports ==
    /\ pc # "crashed"
    /\ pc = "returned" => Len(reports) = 1
    /\ pc = "done" => Len(reports) >= 1

\* the calls issued since the running mode started
ModeCalls == SubSeq(calls, snap.calls + 1, Len(calls))

\* C4: in a dry run the store never changes: every attach, tag and
\* delete-field call carries the dry-run marker and no delete call is issued.
C4_DryRunLeavesStore ==
    opts.dry_run =>
        /\ store = snap.store
        /\ \A i \in 1..Len(calls) :
              /\ calls[i].op \in {"attach", "tag", "delete_field"} => calls[i].dry
              /\ calls[i].op # "delete"

\* C4 witness: a finished dry run whose executor attached a file and tagged
\* a document
C4_Witness ==
    /\ opts.dry_run
    /\ pc = "done"
    /\ reports # <<>>
    /\ \E i, j \in 1..Len(calls) :
          /\ calls[i].op = "attach" /\ calls[i].ok
          /\ calls[j].op = "tag" /\ calls[j].ok /\ calls[j].id \in DocIds

\* the operator has just answered 'n' at the batch confirmation of a mode
Declined ==
    /\ asked # <<>>
    /\ Last(asked).prompt \in {"main", "cleanup"}
    /\ Answer(Last(asked).rsp) = <<"n">>

\* C6: once the operator answers 'n' at the batch confirmation, the mode is
\* over, it has issued no download, edit or delete call, and the store is as
\* it was when the mode started.
C6_CancelAbortsBeforeMutation ==
    Declined =>
        /\ pc \in {"returned", "done"}
        /\ store = snap.store
        /\ \A i \in 1..Len(ModeCalls) : ModeCalls[i].op \notin ExecutorOps

\* C6 witness: a batch with a queued reattachment was declined
C6_Witness ==
    /\ Declined
    /\ DictTotal(acc.reattached_docs) > 0
    /\ Last(asked).rsp = <<"N", " ">>

\* the entries of the executor's queues: the reattachments, and in cleanup
\* mode the removals
ReattachQueue == DictValues(acc.reattached_docs)

\* the executor was ended by an exception of its delete step
ExecutorCrashed == crash = "UnboundLocalError: doc_vid"

\* C7: a failing executor step leaves a Failed entry for its decision and the
\* executor goes on: every executor call the store failed has an entry in
\* failed_docs, and an executor that has stopped has started every queued
\* reattachment and removal.
C7_FailureIsolation ==
    /\ \A i \in 1..Len(ModeCalls) :
          (ModeCalls[i].op \in ExecutorOps /\ ~ModeCalls[i].ok) =>
              \E k \in 1..Len(DictValues(acc.failed_docs)) :
                  DictValues(acc.failed_docs)[k].doc = ModeCalls[i].dec
    /\ ExecutorCrashed =>
          /\ qi = Len(ReattachQueue)
          /\ DictTotal(acc.removed_docs) = 0
          /\ \E k \in 1..Len(DictValues(acc.failed_docs)) :
                  DictValues(acc.failed_docs)[k].doc = ReattachQueue[qi].doc

\* the tag a removed document carries
DeletedTag == reattached_tag \o DeletedSuffix

\* C8: for a document that already carries the deleted tag the executor
\* issues no tag call, its delete call names the document's own vault, and
\* the skipped tag step makes the delete step raise nothing.
C8_IdempotentRerun ==
    /\ ~ExecutorCrashed
    /\ \A i \in 1..Len(ModeCalls) :
          LET c == ModeCalls[i]
          IN  (c.id \in DocIds /\ InList(DeletedTag, snap.store[c.id].tags)) =>
                  /\ c.op # "tag"
                  /\ c.op = "delete" => c.vault = snap.store[c.id].vault

\* cleanup_documents is running
InCleanup == pc \in {"cl_check", "cl_pending", "cl_reattach", "cl_remove", "cl_report"}

\* the checking loop fetched document d
Fetched(d) ==
    \E i \in 1..Len(ModeCalls) :
        ModeCalls[i] = Call("get", d, "", FALSE, FALSE, TRUE, d)

\* removed_docs holds d under reason
RemovedFor(d, reason) ==
    \E i \in 1..Len(DictItems(acc.removed_docs)) :
        /\ DictItems(acc.removed_docs)[i].k = reason
        /\ DictItems(acc.removed_docs)[i].e.doc = d

\* d is held by reattached_docs
QueuedForReattach(d) ==
    \E i \in 1..Len(ReattachQueue) : ReattachQueue[i].doc = d

\* archived item c bears the owner name of document d, references d, and
\* the store did not fail its fetch
ArchivedOwner(c, d) ==
    /\ InList(c, all_itms_w_archive)
    /\ snap.store[c].state = "ARCHIVED"
    /\ strip(snap.store[c].title) = strip(Last(split(snap.store[d].title, Sep)))
    /\ \E k \in 1..Len(snap.store[c].fields) :
          /\ snap.store[c].fields[k].type = "REFERENCE"
          /\ snap.store[c].fields[k].value = d
    /\ \A i \in 1..Len(ModeCalls) :
          (ModeCalls[i].op = "get" /\ ModeCalls[i].id = c /\ ModeCalls[i].dec = d)
              => ModeCalls[i].ok

\* d holds a file with a non-empty id
HasFile(d) ==
    \E k \in 1..Len(snap.store[d].files) : snap.store[d].files[k].id # ""

\* C9: in cleanup mode a fetched upgrade-named document with a file that an
\* archived item of its owner's name references is removed as "referenced by
\* archived item", wherever that item is listed and whatever the active
\* candidates hold, and is not queued for reattachment.
C9_ArchivedReferenceFirst ==
    InCleanup =>
        \A d \in DocIds :
            (/\ Fetched(d)
             /\ HasFile(d)
             /\ ~NotUpgradeNamed(snap.store[d].title)
             /\ \E c \in ItemIds : ArchivedOwner(c, d))
            => /\ RemovedFor(d, "referenced by archived item")
               /\ ~QueuedForReattach(d)
               /\ d \in removed_doc_ids

\* C9 witness: the document was removed for its archived reference although
\* an active item of the same name, listed before the archived one, holds a
\* file of the document's size
C9_Witness ==
    /\ InCleanup
    /\ RemovedFor("D1", "referenced by archived item")
    /\ ArchivedOwner("I2", "D1")
    /\ all_itms_w_archive = <<"I1", "I2">>
    /\ snap.store["I1"].state = "ACTIVE"
    /\ \E k \in 1..Len(snap.store["I1"].files) :
          snap.store["I1"].files[k].size = snap.store["D1"].files[1].size

\* C10: in cleanup mode a fetched document without a file of non-empty id is
\* removed as "no files", whatever its title and the items of the store, and
\* is not queued for reattachment.
C10_NoFilesRemoved ==
    InCleanup =>
        \A d \in DocIds :
            (Fetched(d) /\ ~HasFile(d))
            => /\ RemovedFor(d, "no files")
               /\ d \in removed_doc_ids
               /\ ~QueuedForReattach(d)

\* C10 witness: a document whose only file has an empty id was removed as
\* "no files" while an item of its owner's name exists
C10_Witness ==
    /\ InCleanup
    /\ snap.store["D1"].files # <<>>
    /\ ~HasFile("D1")
    /\ RemovedFor("D1", "no files")
    /\ pc = "cl_report"

\* the last part of title t, split on the separator, ends in a dot followed
\* by k characters none of which is a dot
EndsInExtension(t, k) ==
    LET last == Last(split(t, Sep))
    IN  /\ Len(last) > k
        /\ last[Len(last) - k] = "."
        /\ \A j \in (Len(last) - k + 1)..Len(last) : last[j] # "."

\* title t has no separator, or ends in an extension of 1 to 4 characters
LooksLikeFileName(t) ==
    \/ ~Contains(t, Sep)
    \/ \E k \in 1..4 : EndsInExtension(t, k)

\* skipped_docs holds d under reason
SkippedFor(d, reason) ==
    \E i \in 1..Len(DictItems(acc.skipped_docs)) :
        /\ DictItems(acc.skipped_docs)[i].k = reason
        /\ DictItems(acc.skipped_docs)[i].e.doc = d

\* removal_pending_docs holds d
PendingRemoval(d) ==
    \E i \in 1..Len(DictValues(acc.removal_pending_docs)) :
        DictValues(acc.removal_pending_docs)[i].doc = d

\* some removal of removed_docs is about d
QueuedForRemoval(d) ==
    \E i \in 1..Len(DictValues(acc.removed_docs)) :
        DictValues(acc.removed_docs)[i].doc = d

\* C11: in cleanup mode a fetched document with a file whose title has no
\* separator, or ends in a dot and 1 to 4 characters, is skipped as "not named
\* like document from 1P v7 upgrade"; no item is fetched for it and it enters
\* no queue.
C11_NotUpgradeNamedSkipped ==
    InCleanup =>
        \A d \in DocIds :
            (Fetched(d) /\ HasFile(d) /\ LooksLikeFileName(snap.store[d].title))
            => /\ SkippedFor(d, "not named like document from 1P v7 upgrade")
               /\ \A i \in 1..Len(ModeCalls) :
                     ModeCalls[i].dec = d => ModeCalls[i].id = d
               /\ ~QueuedForReattach(d)
               /\ ~QueuedForRemoval(d)
               /\ ~PendingRemoval(d)

\* C11 witness: a document titled "K - J.p" was skipped for its name while
\* an item titled "J" is listed
C11_Witness ==
    /\ pc = "cl_report"
    /\ snap.store["D2"].title = T_KJp
    /\ SkippedFor("D2", "not named like document from 1P v7 upgrade")
    /\ InList("I1", all_itms_w_archive)

\* listed item c bears the owner name of document d
NamedLikeOwner(c, d) ==
    /\ InList(c, all_itms_w_archive)
    /\ strip(snap.store[c].title) = strip(Last(split(snap.store[d].title, Sep)))

\* the store failed no fetch of item c made for document d
NoFailedFetch(c, d) ==
    \A i \in 1..Len(ModeCalls) :
        (ModeCalls[i].op = "get" /\ ModeCalls[i].id = c /\ ModeCalls[i].dec = d)
            => ModeCalls[i].ok

\* reattached_docs holds d with target item c
ReattachTo(d, c) ==
    \E i \in 1..Len(ReattachQueue) :
        ReattachQueue[i].doc = d /\ ReattachQueue[i].by = c

\* C12: in cleanup mode a fetched document with one file and an upgrade-shaped
\* title, whose only matching item is active and holds no file, is queued as
\* a fuzzy reattachment to that item.
C12_OwnerWithoutFilesReattached ==
    InCleanup =>
        \A d \in DocIds : \A c \in ItemIds :
            (/\ Fetched(d)
             /\ HasFile(d)
             /\ Len(snap.store[d].files) = 1
             /\ ~LooksLikeFileName(snap.store[d].title)
             /\ NamedLikeOwner(c, d)
             /\ \A o \in ItemIds : NamedLikeOwner(o, d) => o = c
             /\ snap.store[c].state = "ACTIVE"
             /\ snap.store[c].files = <<>>
             /\ NoFailedFetch(c, d))
            => ReattachTo(d, c)

\* the place of item c in the listing of items
Pos(c) == CHOOSE i \in 1..Len(all_itms_w_archive) : all_itms_w_archive[i] = c

\* the first file of document d that has an id
FirstFile(d) ==
    LET fs == snap.store[d].files
        k == CHOOSE k \in 1..Len(fs) :
                 fs[k].id # "" /\ \A j \in 1..(k - 1) : fs[j].id = ""
    IN  fs[k]

\* item c is an active item of the owner's name that was fetched for d and
\* holds a file
ActiveWithFiles(c, d) ==
    /\ NamedLikeOwner(c, d)
    /\ snap.store[c].state # "ARCHIVED"
    /\ \E i \in 1..Len(ModeCalls) :
          ModeCalls[i] = Call("get", c, "", FALSE, FALSE, TRUE, d)
    /\ snap.store[c].files # <<>>

\* c is the first such item in listed order
Decides(c, d) ==
    /\ ActiveWithFiles(c, d)
    /\ \A o \in ItemIds : ActiveWithFiles(o, d) => Pos(c) <= Pos(o)

\* removed_docs holds d under reason with matched item c
RemovedBy(d, reason, c) ==
    \E i \in 1..Len(DictItems(acc.removed_docs)) :
        /\ DictItems(acc.removed_docs)[i].k = reason
        /\ DictItems(acc.removed_docs)[i].e.doc = d
        /\ DictItems(acc.removed_docs)[i].e.by = c

SizeMatch(c, d) ==
    \E k \in 1..Len(snap.store[c].files) :
        snap.store[c].files[k].size = FirstFile(d).size

NameMatch(c, d) ==
    \E k \in 1..Len(snap.store[c].files) :
        snap.store[c].files[k].name =
            replace(snap.store[d].title, Sep \o snap.store[c].title, <<>>)

\* C13: in cleanup mode, for a document the archived pass did not resolve, the
\* first active item of the owner's name, in listed order, that was fetched
\* and holds a file decides: a size match removes the document, else a name
\* match removes it, else it is queued once as a fuzzy reattachment to that
\* item; no later item is fetched for the document.
C13_FirstActiveCandidateDecides ==
    InCleanup =>
        \A d \in DocIds : \A c \in ItemIds :
            (/\ Fetched(d)
             /\ HasFile(d)
             /\ ~LooksLikeFileName(snap.store[d].title)
             /\ ~RemovedFor(d, "referenced by archived item")
             /\ Decides(c, d))
            => /\ IF SizeMatch(c, d)
                  THEN RemovedBy(d, "already attached to item (size match)", c)
                  ELSE IF NameMatch(c, d)
                  THEN RemovedBy(d, "already attached to item (name match)", c)
                  ELSE ReattachTo(d, c)
               /\ Len(SelectSeq(ReattachQueue, LAMBDA e : e.doc = d)) <= 1
               /\ \A i \in 1..Len(ModeCalls) :
                     (/\ ModeCalls[i].op = "get"
                      /\ ModeCalls[i].dec = d
                      /\ ModeCalls[i].id \in ItemIds
                      /\ snap.store[ModeCalls[i].id].state # "ARCHIVED")
                     => Pos(ModeCalls[i].id) <= Pos(c)

\* C13 witness: the item listed first holds an unrelated file and became the
\* target of the fuzzy reattachment although the item listed after it holds
\* a file of the document's size
C13_Witness ==
    /\ InCleanup
    /\ all_itms_w_archive = <<"I2", "I1">>
    /\ Decides("I2", "D1")
    /\ ReattachTo("D1", "I2")
    /\ SizeMatch("I1", "D1")

\* some candidate resolved document d
Resolved(d) ==
    \/ RemovedFor(d, "referenced by archived item")
    \/ RemovedFor(d, "already attached to item (size match)")
    \/ RemovedFor(d, "already attached to item (name match)")
    \/ QueuedForReattach(d)

\* removal_pending_docs holds d under "no matching items"
PendingNoMatch(d) ==
    \E i \in 1..Len(DictItems(acc.removal_pending_docs)) :
        /\ DictItems(acc.removal_pending_docs)[i].k = "no matching items"
        /\ DictItems(acc.removal_pending_docs)[i].e.doc = d

\* C14: in cleanup mode a fetched upgrade-named document with a file that no
\* candidate resolved is pending removal for "no matching items" when
\* confirmation is enabled and skipped for "no matching items" otherwise, and
\* a document that carries the reason "no matching items" was resolved by no
\* candidate.
C14_NoMatchingItems ==
    InCleanup =>
        \A d \in DocIds :
            (Fetched(d) /\ HasFile(d) /\ ~LooksLikeFileName(snap.store[d].title))
            => /\ ~Resolved(d) =>
                     IF confirm_before_modifying
                     THEN PendingNoMatch(d) /\ ~SkippedFor(d, "no matching items")
                     ELSE SkippedFor(d, "no matching items") /\ ~PendingNoMatch(d)
               /\ (PendingNoMatch(d) \/ SkippedFor(d, "no matching items"))
                     => ~Resolved(d)

\* the names main gives record o when item is the owning item's title
NamesOf(o, item) ==
    {snap.store[o].title,
     sanitize(replace(snap.store[o].title, Sep \o item, <<>>))}

\* the entries of failed_docs["failed to check document"]
FailedChecks ==
    LET items == SelectSeq(DictItems(acc.failed_docs),
                           LAMBDA x : x.k = "failed to check document")
    IN  [i \in 1..Len(items) |-> items[i].e]

\* C15: in reference mode a failed fetch of a referenced record leaves a
\* Failed entry about that reference, which names no other record, and the
\* run goes on, also when it is the first reference of the run.
C15_ReferenceFetchFailure ==
    /\ crash # "UnboundLocalError: ref_name"
    /\ pc \in {"m_check", "m_exec", "m_report"} =>
          /\ \A i \in 1..Len(ModeCalls) :
                (ModeCalls[i].op = "get" /\ ModeCalls[i].dec # "" /\ ~ModeCalls[i].ok)
                => \E k \in 1..Len(FailedChecks) :
                       FailedChecks[k].doc = ModeCalls[i].id
          /\ \A k \in 1..Len(FailedChecks) :
                \A o \in Ids \ {FailedChecks[k].doc} :
                    FailedChecks[k].document \notin NamesOf(o, FailedChecks[k].item)

\* main is checking, executing or about to report
InMain == pc \in {"m_check", "m_exec", "m_report"}

\* some entry of failed_docs, recorded while checking, is about d
FailedCheck(d) == \E k \in 1..Len(FailedChecks) : FailedChecks[k].doc = d

\* the reference to d went through every test before the file count
PassedChecks(d) ==
    /\ Fetched(d)
    /\ snap.store[d].category = "DOCUMENT"
    /\ ~SkippedFor(d, "doc blacklisted")
    /\ ~SkippedFor(d, "doc not on whitelist")
    /\ ~SkippedFor(d, "user skipped")
    /\ ~FailedCheck(d)

\* C16: in reference mode a referenced document with more than one file is
\* recorded as skipped for "more than one file" and is still queued for
\* reattachment with its first file; once the executor is through, the
\* download for it has been issued.
C16_MoreThanOneFileStillQueued ==
    InMain =>
        \A d \in DocIds :
            (PassedChecks(d) /\ Len(snap.store[d].files) > 1)
            => /\ SkippedFor(d, "more than one file")
               /\ \E i \in 1..Len(ReattachQueue) :
                     /\ ReattachQueue[i].doc = d
                     /\ ReattachQueue[i].ref_file_name = snap.store[d].files[1].name
               /\ pc = "m_report" =>
                     \E i \in 1..Len(ModeCalls) :
                         ModeCalls[i].op = "download" /\ ModeCalls[i].id = d

\* C16 witness: the executor attached the first file of a two-file document
\* that the report also lists as skipped
C16_Witness ==
    /\ pc = "m_report"
    /\ Len(snap.store["D1"].files) = 2
    /\ SkippedFor("D1", "more than one file")
    /\ \E i \in 1..Len(ModeCalls) :
          /\ ModeCalls[i].op = "attach"
          /\ ModeCalls[i].dec = "D1"
          /\ ModeCalls[i].ok

\* matching is over and the executor has been entered
MatchingDone == pc \in {"m_exec", "m_report"}

\* the reference fields of item c
RefsOf(c) == SelectSeq(snap.store[c].fields, LAMBDA r : r.type = "REFERENCE")

\* every fetch and link call of the mode for record id went through
AllFetchesOk(id) ==
    /\ \E i \in 1..Len(ModeCalls) : ModeCalls[i].op = "get" /\ ModeCalls[i].id = id
    /\ \A i \in 1..Len(ModeCalls) :
          (ModeCalls[i].op \in {"get", "link"} /\ ModeCalls[i].id = id)
          => ModeCalls[i].ok

\* item c passed the precheck of the mode
Admitted(c) ==
    /\ snap.store[c].category # "DOCUMENT"
    /\ snap.store[c].state = "ACTIVE"
    /\ ~\E i \in 1..Len(DictValues(acc.skipped_docs)) :
          /\ DictValues(acc.skipped_docs)[i].doc = ""
          /\ DictValues(acc.skipped_docs)[i].item = snap.store[c].title

\* the title of d passes the document lists
TitleAdmitted(d) ==
    LET t == snap.store[d].title
    IN  /\ opts.doc_whitelist # <<>> =>
              \E k \in 1..Len(opts.doc_whitelist) :
                  Contains(lower(t), lower(opts.doc_whitelist[k]))
        /\ \A k \in 1..Len(opts.doc_blacklist) :
              ~Contains(lower(t), lower(opts.doc_blacklist[k]))

\* the operator refused field r of item c at the supervised gate
DeclinedAt(c, r) ==
    \E i \in 1..Len(asked) :
        /\ asked[i].prompt = "supervise"
        /\ asked[i].about = [item |-> c, field |-> r.id, doc |-> r.value]
        /\ Answer(asked[i].rsp) = <<"n">>

\* the entries queued for field r of item c
QueuedFor(c, r) ==
    SelectSeq(ReattachQueue, LAMBDA e : e.item_id = c /\ e.ref_field_id = r.id)

\* some entry of skipped_docs or failed_docs written while matching is about
\* document d under item c; entries name the item by its title and the
\* document by its id, so they are told apart only when a single field of the
\* items of that title refers to d
MatchingRecord(c, d) ==
    /\ Cardinality({x \in ItemIds \X (1..2) :
                       /\ snap.store[x[1]].title = snap.store[c].title
                       /\ x[2] <= Len(RefsOf(x[1]))
                       /\ RefsOf(x[1])[x[2]].value = d}) = 1
    /\ \/ \E i \in 1..Len(DictValues(acc.skipped_docs)) :
          /\ DictValues(acc.skipped_docs)[i].doc = d
          /\ DictValues(acc.skipped_docs)[i].item = snap.store[c].title
       \/ \E i \in 1..Len(FailedChecks) :
             FailedChecks[i].doc = d /\ FailedChecks[i].item = snap.store[c].title

\* field r of item c is a candidate that nothing stands against
CleanCandidate(c, r) ==
    /\ Admitted(c)
    /\ AllFetchesOk(c)
    /\ r.value \in Ids
    /\ AllFetchesOk(r.value)
    /\ TitleAdmitted(r.value)
    /\ snap.store[r.value].category = "DOCUMENT"
    /\ snap.store[r.value].has_files
    /\ Len(snap.store[r.value].files) = 1
    /\ ~DeclinedAt(c, r)

\* C17: in reference mode a reference field of an admitted item whose record
\* is fetched, passes the title lists, is a document with exactly one file and
\* is not declined, has exactly one queued reattachment, which carries the
\* item's id and vault, the field's section label and id, the document's file
\* name and the item's tags; matching records no skip and no failure for it.
C17_OneReattachPerReference ==
    MatchingDone =>
        \A c \in ItemIds :
            \A k \in 1..Len(RefsOf(c)) :
                LET r == RefsOf(c)[k]
                    q == QueuedFor(c, r)
                IN  CleanCandidate(c, r)
                    => /\ Len(q) = 1
                       /\ q[1].doc = r.value
                       /\ q[1].item_vid = snap.store[c].vault
                       /\ q[1].ref_sec = r.section
                       /\ q[1].ref_file_name = snap.store[r.value].files[1].name
                       /\ q[1].item_tags = snap.store[c].tags
                       /\ ~MatchingRecord(c, r.value)

\* C17 witness: a one-file document has been queued for a tagged item
C17_Witness ==
    /\ MatchingDone
    /\ \E c \in ItemIds :
          \E k \in 1..Len(RefsOf(c)) :
              /\ CleanCandidate(c, RefsOf(c)[k])
              /\ snap.store[c].tags # <<>>

\* the executor steps ss that belong to the decision about document d
StepsFor(ss, d) == SelectSeq(ss, LAMBDA x : x.dec = d)

\* the steps ss without the edits of an item's tags
NotItemTag(ss) == SelectSeq(ss, LAMBDA x : ~(x.op = "tag" /\ x.id \in ItemIds))

\* the executor steps ss hold an edit of the tags of item c
ItemTagged(ss, c) == \E i \in 1..Len(ss) : ss[i].op = "tag" /\ ss[i].id = c

\* what the classification a holds about document d
About(a, d) ==
    [reattached |-> SelectSeq(DictItems(a.reattached_docs), LAMBDA x : x.e.doc = d),
     skipped |-> SelectSeq(DictItems(a.skipped_docs), LAMBDA x : x.e.doc = d)]

\* the second supervised run has returned
GateDone == first.ran /\ first.flip > 0 /\ pc = "returned"

\* the candidate the second run refuses
Flipped == first.asked[first.flip].about

\* every queued reattachment was asked about, and no candidate twice
AskedOncePerCandidate ==
    /\ \A i, j \in 1..Len(asked) :
          (asked[i].prompt = "supervise" /\ asked[i].about = asked[j].about)
          => i = j
    /\ \A i \in 1..Len(ReattachQueue) :
          \E j \in 1..Len(asked) :
              /\ asked[j].prompt = "supervise"
              /\ asked[j].about = [item |-> ReattachQueue[i].item_id,
                                   field |-> ReattachQueue[i].ref_field_id,
                                   doc |-> ReattachQueue[i].doc]

\* the refused candidate is skipped, not queued and, unless another field
\* names the same document, not acted on
RefusedIsSkipped ==
    /\ SkippedFor(Flipped.doc, "user skipped")
    /\ \A i \in 1..Len(ReattachQueue) :
          ~(ReattachQueue[i].item_id = Flipped.item
            /\ ReattachQueue[i].ref_field_id = Flipped.field)
    /\ (\A i \in 1..Len(ReattachQueue) : ReattachQueue[i].doc # Flipped.doc)
          => StepsFor(Steps(calls), Flipped.doc) = <<>>

CasePairs ==
    {<<"P", "p">>, <<"J", "j">>, <<"I", "i">>, <<"K", "k">>, <<"C", "c">>,
     <<"O", "o">>, <<"N", "n">>, <<"Y", "y">>}

\* a and b are the same character up to case
SameLetter(a, b) == a = b \/ <<a, b>> \in CasePairs \/ <<b, a>> \in CasePairs

\* term occurs in title, case ignored
OccursIn(term, title) ==
    \E i \in 0..(Len(title) - Len(term)) :
        \A k \in 1..Len(term) : SameLetter(term[k], title[i + k])

\* the whitelist half and the blacklist half of the title test
WhiteAdmits(title, wl) == wl = <<>> \/ \E k \in 1..Len(wl) : OccursIn(wl[k], title)
BlackAdmits(title, bl) == bl = <<>> \/ \A k \in 1..Len(bl) : ~OccursIn(bl[k], title)

\* the pairs of lists a title is tested against
TitleLists ==
    {<<opts.item_whitelist, opts.item_blacklist>>,
     <<opts.doc_whitelist, opts.doc_blacklist>>,
     <<opts.item_whitelist \o opts.doc_whitelist,
       opts.item_blacklist \o opts.doc_blacklist>>}

\* skipped_docs holds an entry about an item of this title alone under reason
ItemSkippedFor(title, reason) ==
    \E i \in 1..Len(DictItems(acc.skipped_docs)) :
        /\ DictItems(acc.skipped_docs)[i].k = reason
        /\ DictItems(acc.skipped_docs)[i].e.doc = ""
        /\ DictItems(acc.skipped_docs)[i].e.item = title

\* C19: for every title of the store and every pair of lists of the run,
\* allowed_by_white_black_lists without exact_match returns the pair (the
\* whitelist is empty or one of its terms occurs in the title, case ignored;
\* the blacklist is empty or none of its terms does), and main's precheck
\* skips an item as not on the whitelist or as blacklisted exactly when the
\* title test does not admit its title.
C19_TitleTest ==
    /\ \A id \in Ids :
          \A l \in TitleLists :
              allowed_by_white_black_lists(store[id].title, l[1], l[2], FALSE)
              = <<WhiteAdmits(store[id].title, l[1]), BlackAdmits(store[id].title, l[2])>>
    /\ InMain =>
          \A c \in ItemIds :
              LET t == snap.store[c].title
              IN  snap.store[c].state = "ACTIVE" =>
                    /\ ItemSkippedFor(t, "item blacklisted")
                        <=> ~BlackAdmits(t, opts.item_blacklist)
                    /\ ItemSkippedFor(t, "item not on whitelist")
                        <=> (BlackAdmits(t, opts.item_blacklist)
                             /\ ~WhiteAdmits(t, opts.item_whitelist))

\* C19 witness: main let an item pass whose title holds a whitelist term in
\* another case, and skipped a document whose title holds a blacklist term
\* in another case
C19_Witness ==
    /\ InMain
    /\ opts.item_whitelist = << <<"j">> >>
    /\ ~ItemSkippedFor(snap.store["I1"].title, "item not on whitelist")
    /\ ~Contains(snap.store["D1"].title, <<"p">>)
    /\ SkippedFor("D1", "doc blacklisted")

\* the tag test: a whitelist term among the tags unless the whitelist is
\* empty, and no blacklist term among them
TagAdmits(tags, wl, bl) ==
    /\ wl = <<>> \/ \E i \in 1..Len(tags) : \E k \in 1..Len(wl) : tags[i] = wl[k]
    /\ bl = <<>> \/ \A i \in 1..Len(tags) : \A k \in 1..Len(bl) : tags[i] # bl[k]

\* the precheck of the mode skipped the subject for one of its tags
TagSkipped(id) ==
    IF id \in ItemIds
    THEN \/ ItemSkippedFor(snap.store[id].title, "item tag not on whitelist")
         \/ ItemSkippedFor(snap.store[id].title, "item tag blacklisted")
    ELSE \/ SkippedFor(id, "item tag not on whitelist")
         \/ SkippedFor(id, "item tag blacklisted")

\* the subjects of the mode's precheck that pass its title test
TagSubjects ==
    {id \in Ids :
        /\ snap.store[id].state = "ACTIVE"
        /\ IF InMain
           THEN /\ id \in ItemIds
                /\ WhiteAdmits(snap.store[id].title, opts.item_whitelist)
                /\ BlackAdmits(snap.store[id].title, opts.item_blacklist)
           ELSE /\ id \in DocIds
                /\ WhiteAdmits(snap.store[id].title,
                               opts.item_whitelist \o opts.doc_whitelist)
                /\ BlackAdmits(snap.store[id].title,
                               opts.item_blacklist \o opts.doc_blacklist)}

\* C20: the precheck lets a subject pass its tag test iff the tag whitelist
\* is empty or one of the subject's tags is on it, and the tag blacklist is
\* empty or none of the subject's tags is on it; so a subject with a
\* whitelisted tag and another tag passes, and a subject without tags does
\* not pass a non-empty whitelist.
C20_TagTest ==
    (InMain \/ InCleanup) =>
        \A id \in TagSubjects :
            ~TagSkipped(id)
            <=> TagAdmits(snap.store[id].tags, opts.tag_whitelist, opts.tag_blacklist)

\* every tag passes the tag lists: the tag test as lines 185-191 and 558-564
\* apply it
EveryTagPasses(tags, wl, bl) ==
    \A i \in 1..Len(tags) :
        /\ wl = <<>> \/ \E k \in 1..Len(wl) : tags[i] = wl[k]
        /\ \A k \in 1..Len(bl) : tags[i] # bl[k]

\* the lists of the run deny the subject: an item by the item lists and the
\* tag lists, a document by the document lists in reference mode and by the
\* merged title lists and the tag lists in cleanup mode
DeniedByFilter(id) ==
    LET t == snap.store[id].title
        tagged == EveryTagPasses(snap.store[id].tags, opts.tag_whitelist,
                                 opts.tag_blacklist)
    IN  IF id \in ItemIds
        THEN ~(/\ WhiteAdmits(t, opts.item_whitelist)
               /\ BlackAdmits(t, opts.item_blacklist)
               /\ tagged)
        ELSE IF InMain
        THEN ~(/\ WhiteAdmits(t, opts.doc_whitelist)
               /\ BlackAdmits(t, opts.doc_blacklist))
        ELSE ~(/\ WhiteAdmits(t, opts.item_whitelist \o opts.doc_whitelist)
               /\ BlackAdmits(t, opts.item_blacklist \o opts.doc_blacklist)
               /\ tagged)

\* C21: a subject the lists deny takes no further part in the mode: no store
\* call of the mode, fetch or mutation, names a denied item or a denied
\* document, also not an item that is the owner by name of a document in
\* cleanup mode.
C21_DeniedTakesNoPart ==
    (InMain \/ InCleanup) =>
        \A id \in Ids :
            DeniedByFilter(id) =>
                \A i \in 1..Len(ModeCalls) : ModeCalls[i].id # id

\* the calls of the session that came before the running mode
EarlierCalls == SubSeq(calls, 1, snap.calls)

\* reference mode, earlier in the session, had document d in its queue: its
\* executor issued the download for it
QueuedByMain(d) ==
    \E i \in 1..Len(EarlierCalls) :
        EarlierCalls[i].op = "download" /\ EarlierCalls[i].dec = d

\* C22: in a session that runs reference mode and then cleanup mode, no
\* document that reference mode queued for reattachment is classified by
\* cleanup mode or named by one of its store calls, in live runs and in dry
\* runs, whether or not reference mode's reattachment went through.
C22_ClaimedByMainNotCleanedUp ==
    InCleanup =>
        \A d \in DocIds :
            QueuedByMain(d) =>
                /\ Decisions(acc, d) = 0
                /\ \A i \in 1..Len(ModeCalls) :
                      ModeCalls[i].id # d /\ ModeCalls[i].dec # d

\* the mode is in, or main is past, its reattach loop
Reattaching == pc \in {"cl_reattach", "m_exec", "m_report"}

\* call i of the mode retires document d: it tags d or deletes it
Retires(i, d) ==
    /\ ModeCalls[i].dec = d
    /\ ModeCalls[i].id = d
    /\ ModeCalls[i].op \in {"tag", "delete"}

\* before call i the mode downloaded d's file and then attached it
AttachedBefore(i, d) ==
    \E j, k \in 1..(i - 1) :
        /\ j < k
        /\ ModeCalls[j].op = "download" /\ ModeCalls[j].dec = d /\ ModeCalls[j].ok
        /\ ModeCalls[k].op = "attach" /\ ModeCalls[k].dec = d /\ ModeCalls[k].ok

\* C23: in a live run of either mode the reattach loop tags a document as
\* deleted or deletes it only after the document's file was downloaded and
\* the attach edit on the target item went through.
C23_RetiredOnlyAfterAttach ==
    (Reattaching /\ ~opts.dry_run) =>
        \A d \in DocIds :
            \A i \in 1..Len(ModeCalls) :
                Retires(i, d) => AttachedBefore(i, d)

\* the indexes of the mode's calls that are executor steps
ExecutorSteps == {i \in 1..Len(ModeCalls) : ModeCalls[i].op \in ExecutorOps}

\* the executor has a single decision about document d
SingleDecision(d) ==
    Len(SelectSeq(ReattachQueue, LAMBDA e : e.doc = d))
    + Len(SelectSeq(DictValues(acc.removed_docs), LAMBDA e : e.doc = d)) = 1

\* the records the executor left in failed_docs about document d
ExecutorFailures(d) ==
    SelectSeq(DictItems(acc.failed_docs),
              LAMBDA x : /\ x.e.doc = d
                         /\ x.k \in {"failed to reattach document",
                                     "failed to add reattached tag to item",
                                     "failed to tag document before removal",
                                     "failed to delete document"})

\* C24: a decision's step sequence stops at its first failing step: once a
\* step of the decision about a document has failed, no later step is issued
\* for it, and the decision leaves at most one Failed record.
C24_StopsAtFirstFailure ==
    \A d \in DocIds :
        SingleDecision(d) =>
            /\ \A i, j \in ExecutorSteps :
                  (i < j /\ ModeCalls[i].dec = d /\ ModeCalls[j].dec = d)
                  => ModeCalls[i].ok
            /\ Len(ExecutorFailures(d)) <= 1

\* the executor steps of the mode, in the order issued
Ex == SelectSeq(ModeCalls, LAMBDA c : c.op \in ExecutorOps)

\* step i of Ex is the edit of an item's tags / of a document's tags
ItemTagStep(i) == Ex[i].op = "tag" /\ Ex[i].id \in ItemIds
DocTagStep(i) == Ex[i].op = "tag" /\ Ex[i].id \in DocIds

\* step i of Ex comes right after a step of the same decision that went
\* through and is one of ops
Follows(i, ops) ==
    /\ i > 1
    /\ Ex[i - 1].dec = Ex[i].dec
    /\ Ex[i - 1].ok
    /\ \/ Ex[i - 1].op \in ops \ {"item tag", "doc tag"}
       \/ "item tag" \in ops /\ ItemTagStep(i - 1)
       \/ "doc tag" \in ops /\ DocTagStep(i - 1)

\* step i of Ex went through and is not the last: the next one is of the same
\* decision
Leads(i) == i < Len(Ex) /\ Ex[i + 1].dec = Ex[i].dec

NewCalls == SubSeq(calls', Len(calls) + 1, Len(calls'))

\* the document the remove loop is at
RemovedNow == DictValues(acc.removed_docs)[qi].doc

\* C26: for a removal (a pending one the operator approved included) the
\* executor issues at most the tag edit on the document and then its delete,
\* in that order, and no other call; the delete comes right after the tag
\* edit unless the document carried the deleted tag already.
C26_RemoveTagsThenDeletes ==
    [][CleanupRemove =>
        /\ Len(NewCalls) <= 2
        /\ \A i \in 1..Len(NewCalls) :
              /\ NewCalls[i].id = RemovedNow
              /\ NewCalls[i].dec = RemovedNow
              /\ NewCalls[i].op \in {"tag", "delete"}
        /\ Len(NewCalls) = 2 => NewCalls[1].op = "tag" /\ NewCalls[2].op = "delete"
        /\ (Len(NewCalls) = 1 /\ NewCalls[1].op = "delete")
              => InList(reattached_tag \o DeletedSuffix, heap[RemovedNow])]_vars

\* C26 witness: the remove loop tagged and then deleted a document that was
\* pending until the operator approved it
C26_Witness ==
    /\ pc = "cl_report"
    /\ asked # <<>>
    /\ Last(asked).prompt = "pending"
    /\ Len(ModeCalls) >= 2
    /\ ModeCalls[Len(ModeCalls)].op = "delete"
    /\ ModeCalls[Len(ModeCalls) - 1].op = "tag"
    /\ PendingRemoval(ModeCalls[Len(ModeCalls)].dec)

\* the executor of the mode has started
Executing == pc \in {"cl_reattach", "cl_remove", "cl_report", "m_exec", "m_report"}

\* how often document d is listed in the reattach queue and the remove queue
Listings(d) ==
    Len(SelectSeq(ReattachQueue, LAMBDA e : e.doc = d))
    + Len(SelectSeq(DictValues(acc.removed_docs), LAMBDA e : e.doc = d))

\* C27: in one run of a mode the delete call is issued at most once per
\* document: when the executor starts no document is listed more than once
\* in the reattach queue and the remove queue together, approved pending
\* removals included.
C27_DeleteAtMostOnce ==
    \A d \in DocIds :
        /\ Len(SelectSeq(ModeCalls, LAMBDA c : c.op = "delete" /\ c.id = d)) <= 1
        /\ Executing => Listings(d) <= 1

\* the operator was asked about the pending removals and did not answer y
PendingRefused ==
    \E i \in 1..Len(asked) :
        asked[i].prompt = "pending" /\ Answer(asked[i].rsp) # <<"y">>

\* C28: a document pending removal is tagged or deleted only when the
\* operator answers y at the pending prompt: after any other answer the
\* remove queue holds no pending document and no tag or delete call of the
\* mode names one.
C28_PendingOnlyOnYes ==
    (InCleanup /\ PendingRefused) =>
        \A d \in DocIds :
            PendingRemoval(d) =>
                /\ ~QueuedForRemoval(d)
                /\ \A i \in 1..Len(ModeCalls) :
                      ModeCalls[i].op \in {"tag", "delete"} => ModeCalls[i].id # d

\* the mode has issued an item edit or an item delete
Mutated ==
    \E i \in 1..Len(ModeCalls) :
        ModeCalls[i].op \in {"attach", "tag", "delete_field", "delete"}

\* every subject the mode admitted has been classified: in cleanup mode each
\* listed document the precheck let pass has an entry, in reference mode
\* each listed item the precheck let pass has been fetched and no reference
\* is left to check
AllClassified ==
    /\ todo = <<>>
    /\ cur = NoCur
    /\ pc \notin {"main", "m_check", "cleanup", "cl_check"}
    /\ \A id \in Ids :
          (snap.store[id].state = "ACTIVE" /\ ~DeniedByFilter(id))
          => IF InMain
             THEN id \in ItemIds =>
                    \E i \in 1..Len(ModeCalls) :
                        ModeCalls[i].op = "get" /\ ModeCalls[i].id = id
             ELSE (InCleanup /\ id \in DocIds) => Decisions(acc, id) >= 1

\* the operator answered the batch confirmation of the mode
BatchAnswered ==
    \E i \in 1..Len(asked) :
        asked[i].prompt = (IF InCleanup THEN "cleanup" ELSE "main")

\* the mode runs with confirmation
Confirming == opts.confirm_before_modifying \/ opts.supervise_run

\* the mode had nothing but pending removals to confirm, and the operator
\* approved them
OnlyPendingApproved ==
    /\ InCleanup
    /\ ReattachQueue = <<>>
    /\ \A i \in 1..Len(DictValues(acc.removed_docs)) :
          PendingRemoval(DictValues(acc.removed_docs)[i].doc)
    /\ \E i \in 1..Len(asked) :
          asked[i].prompt = "pending" /\ Answer(asked[i].rsp) = <<"y">>

\* C29 as stated: within a mode no item edit or delete is issued while an
\* admitted subject is unclassified, and with confirmation none is issued
\* before the operator answered the batch confirmation prompt.
C29_PhasedBehindBatchPrompt ==
    ((InMain \/ InCleanup) /\ Mutated) =>
        /\ AllClassified
        /\ Confirming => BatchAnswered

\* C29 amended: as above, but when cleanup mode has nothing queued except
\* pending removals it asks no batch confirmation, and the approval at the
\* pending prompt stands in for it.
C29_PhasedBehindPrompt ==
    ((InMain \/ InCleanup) /\ Mutated) =>
        /\ AllClassified
        /\ Confirming => (BatchAnswered \/ OnlyPendingApproved)

\* C29 witness: with confirmation, cleanup mode mutated after the batch
\* prompt, and every admitted document had been classified
C29_Witness ==
    /\ InCleanup
    /\ Confirming
    /\ Mutated
    /\ BatchAnswered
    /\ \E d \in DocIds : snap.store[d].state = "ACTIVE" /\ ~DeniedByFilter(d)

\* reference mode has checked every reference it was going to check
RefsChecked == pc \in {"m_exec", "m_report", "returned"}

\* the reason the document lists deny the title of d for
DenialReason(d) ==
    IF \E k \in 1..Len(opts.doc_blacklist) :
           Contains(lower(snap.store[d].title), lower(opts.doc_blacklist[k]))
    THEN "doc blacklisted"
    ELSE "doc not on whitelist"

\* reference mode queued nothing for record d and issued no edit or delete
\* on its behalf
LeftAlone(d) ==
    /\ \A i \in 1..Len(ReattachQueue) : ReattachQueue[i].doc # d
    /\ \A i \in 1..Len(ModeCalls) :
          ModeCalls[i].dec = d
          => ModeCalls[i].op \notin {"download", "attach", "tag", "delete_field", "delete"}

\* C30: in reference mode the title of a fetched referenced record is held
\* against the document lists before its category is tested: a record whose
\* title is denied is skipped for "doc blacklisted" or "doc not on
\* whitelist" even when it is no document, a record whose title passes and
\* that is no document is skipped for "not a document", and in both cases
\* nothing is queued for it and nothing is changed.
C30_TitleBeforeCategory ==
    RefsChecked =>
        \A c \in ItemIds : \A k \in 1..Len(RefsOf(c)) :
            LET d == RefsOf(c)[k].value
            IN  (Admitted(c) /\ AllFetchesOk(c) /\ AllFetchesOk(d)) =>
                  /\ ~TitleAdmitted(d) =>
                        /\ SkippedFor(d, DenialReason(d))
                        /\ ~SkippedFor(d, "not a document")
                        /\ LeftAlone(d)
                  /\ (TitleAdmitted(d) /\ snap.store[d].category # "DOCUMENT") =>
                        /\ SkippedFor(d, "not a document")
                        /\ ~SkippedFor(d, "doc blacklisted")
                        /\ ~SkippedFor(d, "doc not on whitelist")
                        /\ LeftAlone(d)

\* C30 witness: a referenced record that is no document was skipped for its
\* title, not for its category
C30_Witness ==
    /\ RefsChecked
    /\ \E c \in ItemIds : \E k \in 1..Len(RefsOf(c)) :
          LET d == RefsOf(c)[k].value
          IN  /\ snap.store[d].category # "DOCUMENT"
              /\ ~TitleAdmitted(d)
              /\ SkippedFor(d, "doc not on whitelist")

\* the reasons the precheck skips a subject for
PrecheckReasons ==
    {"item blacklisted", "item not on whitelist",
     "item tag blacklisted", "item tag not on whitelist"}

\* the subjects the precheck of the mode looks at: the listed items in
\* reference mode, the listed documents in cleanup mode
PrecheckSubjects ==
    {id \in Ids : /\ snap.store[id].state = "ACTIVE"
                  /\ IF InMain THEN id \in ItemIds ELSE id \in DocIds}

\* the title lists of the mode's precheck
PrecheckWhite ==
    IF InMain THEN opts.item_whitelist
    ELSE opts.item_whitelist \o opts.doc_whitelist
PrecheckBlack ==
    IF InMain THEN opts.item_blacklist
    ELSE opts.item_blacklist \o opts.doc_blacklist

\* the single reason the filter is to give for a denied subject: a failed
\* blacklist test wins over a failed whitelist test, the title test is
\* looked at before the tag test
ExpectedReason(id) ==
    LET t == snap.store[id].title
        tags == snap.store[id].tags
    IN  IF ~BlackAdmits(t, PrecheckBlack) THEN "item blacklisted"
        ELSE IF ~WhiteAdmits(t, PrecheckWhite) THEN "item not on whitelist"
        ELSE IF \E i \in 1..Len(tags) : \E k \in 1..Len(opts.tag_blacklist) :
                    tags[i] = opts.tag_blacklist[k]
        THEN "item tag blacklisted"
        ELSE "item tag not on whitelist"

\* the precheck records of reference mode under reason rs that name title t
MainSkips(t, rs) ==
    Len(SelectSeq(DictItems(acc.skipped_docs),
                  LAMBDA x : x.k = rs /\ x.e.doc = "" /\ x.e.item = t))

\* the precheck records of cleanup mode under reason rs that are about d
CleanupSkips(d, rs) ==
    Len(SelectSeq(DictItems(acc.skipped_docs), LAMBDA x : x.k = rs /\ x.e.doc = d))

\* C31: every subject the precheck denies gets exactly one skip record, an
\* admitted one gets none; the reason is "blacklisted" whenever the
\* blacklist test failed and "not on whitelist" when the whitelist test
\* alone failed, a subject denied for its title gets no record for its tags,
\* and a subject with several offending tags is recorded once.  Reference
\* mode names a subject by its title, so its records are counted per title.
C31_OneRecordOneReason ==
    /\ InMain =>
          \A c \in PrecheckSubjects : \A rs \in PrecheckReasons :
              MainSkips(snap.store[c].title, rs)
              = Cardinality({x \in PrecheckSubjects :
                                /\ snap.store[x].title = snap.store[c].title
                                /\ DeniedByFilter(x)
                                /\ ExpectedReason(x) = rs})
    /\ InCleanup =>
          \A d \in PrecheckSubjects : \A rs \in PrecheckReasons :
              CleanupSkips(d, rs)
              = IF DeniedByFilter(d) /\ ExpectedReason(d) = rs THEN 1 ELSE 0

\* the tags of a list, as a set
TagSet(tags) == {tags[k] : k \in 1..Len(tags)}

\* the marker tag the item tag step of the mode adds
Marker == IF InMain THEN reattached_tag ELSE reattached_tag \o FuzzySuffix

\* the tags item c carries in the store when executor call i is issued: the
\* list of the last set-tags edit that took effect, or its tags at the
\* start of the mode
TagsBefore(i, c) ==
    LET prior == {j \in 1..(i - 1) : /\ Ex[j].op = "tag" /\ Ex[j].id = c
                                     /\ Ex[j].ok /\ ~Ex[j].dry}
    IN  IF prior = {} THEN snap.store[c].tags
        ELSE Ex[CHOOSE j \in prior : \A k \in prior : k <= j].tags

\* executor call i is the last call before the item tag step of its entry:
\* the attach in reference mode, where the step runs after a successful
\* attach; the attach or a failed download in cleanup mode, where the step
\* runs whatever came of them
BeforeItemTagStep(i) ==
    IF InMain THEN Ex[i].op = "attach" /\ Ex[i].ok
    ELSE /\ Ex[i].id \in ItemIds \/ Ex[i].op = "download"
         /\ \/ Ex[i].op = "attach"
            \/ Ex[i].op = "download" /\ ~Ex[i].ok

\* the item executor call i attaches a file to
TargetOf(i) ==
    IF Ex[i].op = "attach" THEN Ex[i].id
    ELSE CHOOSE c \in ItemIds :
            \E k \in 1..Len(ReattachQueue) :
                ReattachQueue[k].doc = Ex[i].dec /\ ReattachQueue[k].by = c

\* C32: the item tag step issues a set-tags edit on the target item iff a
\* reattach tag is configured and the marker tag is not among the tags the
\* item carries; the tags sent are the tags the item carried plus the
\* marker; and every set-tags edit for an item holds every tag the item had
\* when the run began.
C32_ItemTagStep ==
    ((InMain \/ InCleanup) /\ crash = "") =>
        /\ \A i \in 1..Len(Ex) :
              ItemTagStep(i) =>
                /\ reattached_tag # <<>>
                /\ Marker \notin TagSet(TagsBefore(i, Ex[i].id))
                /\ TagSet(Ex[i].tags) = TagSet(TagsBefore(i, Ex[i].id)) \cup {Marker}
                /\ TagSet(snap.store[Ex[i].id].tags) \subseteq TagSet(Ex[i].tags)
        /\ \A i \in 1..Len(Ex) :
              (/\ BeforeItemTagStep(i)
               /\ reattached_tag # <<>>
               /\ Marker \notin TagSet(TagsBefore(i, TargetOf(i))))
              => /\ i < Len(Ex)
                 /\ ItemTagStep(i + 1)
                 /\ Ex[i + 1].id = TargetOf(i)

\* C33: every delete call is issued in a live run for a document and carries
\* the archive marker iff archiving is configured, whichever sequence
\* issues it; with archiving configured no document is permanently deleted.
C33_DeleteArchivesIffConfigured ==
    /\ \A i \in 1..Len(calls) :
          calls[i].op = "delete" =>
              /\ calls[i].archive = opts.archive_docs
              /\ calls[i].id \in DocIds
              /\ ~opts.dry_run
    /\ opts.archive_docs =>
          \A d \in DocIds :
              store[d].state = "DELETED" => snap.store[d].state = "DELETED"

\* C33 witness: with archiving configured the remove sequence of cleanup
\* mode issued a delete that went through, and the document is archived
C33_Witness ==
    /\ opts.archive_docs
    /\ InCleanup
    /\ \E i \in 1..Len(ModeCalls) :
          /\ ModeCalls[i].op = "delete"
          /\ ModeCalls[i].ok
          /\ ModeCalls[i].archive
          /\ QueuedForRemoval(ModeCalls[i].dec)
          /\ snap.store[ModeCalls[i].id].state = "ACTIVE"
          /\ store[ModeCalls[i].id].state = "ARCHIVED"

\* R has returned to its caller or raised to it
RDone == rcall.pc \in {"returned", "raised"}

\* what R has done so far is what it may do: no more failed attempts than
\* max_num_attempts, a return hands back the output of the first attempt
\* that succeeded, a raise comes after max_num_attempts failed attempts and
\* carries the error of the last one, and nothing is returned without a
\* value
RSafe ==
    /\ rcall.num_attempts <= max_num_attempts
    /\ rcall.value # "None"
    /\ rcall.pc = "returned" =>
          \E k \in 1..max_num_attempts :
              /\ rcall.answers[k].ok
              /\ \A j \in 1..(k - 1) : ~rcall.answers[j].ok
              /\ rcall.value = rcall.answers[k].out
              /\ rcall.num_attempts = k - 1
    /\ rcall.pc = "raised" =>
          /\ \A k \in 1..max_num_attempts : ~rcall.answers[k].ok
          /\ rcall.value = rcall.answers[max_num_attempts].out
          /\ rcall.num_attempts = max_num_attempts

\* C34: R always terminates: it makes at most max_num_attempts attempts,
\* returns the output of the first attempt that succeeds, and after the last
\* failed attempt raises that attempt's error; it never returns without a
\* value after a failure.
C34_WrapperTerminates == [](rcall.pc # "idle" => RSafe) /\ <>RDone

\* C34 witness: R raised the error of its one attempt although the store's
\* next answer would have been a success
C34_Witness ==
    /\ rcall.pc = "raised"
    /\ rcall.value = "err2"
    /\ rcall.num_attempts = max_num_attempts
    /\ rcall.answers[max_num_attempts + 1].ok

\* C5: a dry run and the real run that follows it on the same store with the
\* same answers classify every document alike and issue the same executor
\* steps for every decision.
C5_DryRunSameAsLive ==
    (first.ran /\ pc \in {"done", "crashed"}) =>
        /\ Steps(calls) = first.steps
        /\ <<Decided(acc), reports>> = first.decided

====
